---- MODULE Spec2Model ----
(***************************************************************************)
(* Concurrent pricing engine of src/src/ThreadManager.cpp:                 *)
(*   ThreadSafePriceTable  (shared_mutex protected map)                    *)
(*   ThreadSafeLogger      (queue + mutex + condition variable + writer)   *)
(*   ThreadManager         (merchant threads, worker pool, ledger,         *)
(*                          counters, stop flag)                          *)
(* The specifications share the variables:                                 *)
(*   SpecTable  clients calling the price table operations, lock level     *)
(*   SpecMin    clients calling updatePriceIfLower only                    *)
(*   SpecLog    producers, stop() and the writer thread of the logger      *)
(*   Spec       the ThreadManager with its execution units                 *)
(*   SpecObs    fixed mode with exportPriceTrend and printStatistics       *)
(*   SpecLocks  the lock scopes of all operations                          *)
(*   SpecLogFair, SpecPoolFair, SpecObsFair: the same under fair scheduling *)
(***************************************************************************)
EXTENDS Integers, Sequences, FiniteSets, TLC

(***************************************************************************)
(* Bounds of the model                                                     *)
(***************************************************************************)
NumClients == 2
NumProducers == 2
MaxMsgs == 3
NumWorkers == 2
MaxTasks == 2
MaxPrice == 3
MaxObs == 1
NumMinClients == 3
MaxCalls == 4
MaxVal == 2
MaxMinVal == 3

None == 0

Products == {"P1", "P2"}
Values == 1..MaxVal
Clients == 1..NumClients
MinValues == 1..MaxMinVal
MinClients == 1..NumMinClients
Producers == 1..NumProducers
Writer == "writer"
Owner == "owner"

VARIABLES
  prices,      \* ThreadSafePriceTable::prices     (map: present keys -> price)
  rwMutex,     \* ThreadSafePriceTable::rwMutex    [w: holder or None, r: set of readers]
  cpc,         \* position of each price-table client
  cop,         \* the call the client is in: [op, id, val]
  cret,        \* the value the call is returning
  ctmp,        \* locals of the call in progress (iterator / partial copy)
  ncalls,      \* number of calls made so far
  acqOrder,    \* history: the calls holding a unique_lock, in the order they got it
  overtaken,   \* history: a call that took the lock later has stored to the key first
  lastW,       \* history: per key, the value stored by the latest lock holder that stored
  cpre,        \* history: the table when the call got its lock
  cseen,       \* history: the tables that existed since the call was made
  updVals,     \* history: per key, the values of the updatePriceIfLower calls made
  updTrue,     \* history: per key, the values whose updatePriceIfLower returned true
  mixed        \* history: per key, a setPrice was called or an update value repeated

tableVars ==
  <<prices, rwMutex, cpc, cop, cret, ctmp, ncalls, acqOrder, overtaken, lastW,
    cpre, cseen, updVals, updTrue, mixed>>

VARIABLES
  logQueue,      \* ThreadSafeLogger::logQueue
  logMutex,      \* ThreadSafeLogger::queueMutex: holder or None
  logStopFlag,   \* ThreadSafeLogger::stopFlag
  cvWaiting,     \* ThreadSafeLogger::cv: the writer is blocked in wait, not notified
  wpc,           \* position of the writer thread
  wmsg,          \* writerThreadFunc's local "message"
  fileOpen,      \* logFile.is_open()
  fileLines,     \* the lines written to logFile
  ppc,           \* position of each thread calling log()
  pmsg,          \* the message of the log() call in progress
  nmsg,          \* number of messages pushed so far
  opc,           \* position of the thread that owns the logger (stop, destructor)
  preStop        \* history: messages whose log() returned before stop() was called

logVars ==
  <<logQueue, logMutex, logStopFlag, cvWaiting, wpc, wmsg, fileOpen, fileLines,
    ppc, pmsg, nmsg, opc, preStop>>

VARIABLES
  stopFlag,        \* ThreadManager::stopFlag
  priceHistory,    \* ThreadManager::priceHistory (the ledger)
  totalTasks,      \* ThreadManager::totalTasks
  successTasks,    \* ThreadManager::successTasks
  failedTasks,     \* ThreadManager::failedTasks
  taskQueue,       \* ThreadManager::taskQueue
  queueMutex,      \* ThreadManager::queueMutex: "free" or the holder
  queueWaiters,    \* ThreadManager::queueCV: workers blocked in wait, not notified
  merchantThreads, \* ThreadManager::merchantThreads: the units spawned and not yet cleared
  upc,             \* position of each execution unit ("none": not spawned)
  utask,           \* the unit's local PricingTask
  uidx,            \* merchant thread: index of the current product in merchant.products
  mpc,             \* position of the thread that owns the ThreadManager
  mode,            \* how the units were started: "none", "fixed", "pool"
  unitLog,         \* the messages the units passed to logger->log
  ntasks,          \* history: number of tasks named so far
  started,         \* history: tasks whose executePricingTask was called
  setters,         \* history: tasks whose setPrice was executed
  lastSet,         \* history: per product, the task of the latest setPrice
  lastDone,        \* history: per product, adjusted price of the latest successful task to complete
  submitted,       \* history: number of tasks submitted
  preStopTasks,    \* history: tasks that addTask had enqueued when stopAll was called
  stopEver,        \* history: stopAll was called
  addAfterStop,    \* history: addTask was called after stopAll
  waited,          \* history: waitAll has returned
  rewaited         \* history: waitAll was called again and has returned

queueVars == <<taskQueue, queueMutex, queueWaiters>>

counterVars == <<totalTasks, successTasks, failedTasks>>

unitVars == <<upc, utask, uidx>>

ownerVars == <<mpc, mode, merchantThreads>>

taskHist == <<ntasks, started, setters, lastSet, lastDone>>

runHist == <<submitted, preStopTasks, stopEver, addAfterStop, waited, rewaited>>

mgrVars ==
  <<stopFlag, priceHistory, counterVars, queueVars, unitVars, ownerVars, unitLog,
    taskHist, runHist>>

\* the members of the price table other than the map
tableAux ==
  <<rwMutex, cpc, cop, cret, ctmp, ncalls, acqOrder, overtaken, lastW, cpre, cseen,
    updVals, updTrue, mixed>>

VARIABLES
  held,            \* the core locks each thread holds
  rshared,         \* the threads that hold rwMutex in shared mode
  lscript          \* the lock events left of the operation a thread is in

lockVars == <<held, rshared, lscript>>

VARIABLES
  historyMutex,    \* ThreadManager::historyMutex: "free" or the holder
  exportFile,      \* the rows exportPriceTrend has written to its file
  nobs,            \* number of exportPriceTrend / printStatistics calls so far
  openFailed       \* history: the last exportPriceTrend call could not open its file

obsVars == <<historyMutex, exportFile, nobs, openFailed>>

VARIABLES
  logCall,         \* per manager thread: the message of the logger->log call it is in, or <<>>
  logged           \* history: the manager's messages pushed onto the logger's queue

callVars == <<logCall, logged>>

otherThanTable == <<logVars, mgrVars, lockVars, obsVars, callVars>>

otherThanLog == <<tableVars, mgrVars, lockVars, obsVars, callVars>>

otherThanMgr == <<tableAux, logVars, lockVars, obsVars, callVars>>

vars == <<tableVars, logVars, mgrVars, lockVars, obsVars, callVars>>

(***************************************************************************)
(* ThreadSafePriceTable: the bodies of the operations, as functions of the *)
(* map.  A map is a function whose DOMAIN is the set of present keys.      *)
(***************************************************************************)
EmptyMap == [k \in {} |-> 0]

Put(m, id, v) == [k \in (DOMAIN m) \cup {id} |-> IF k = id THEN v ELSE m[k]]

\* mutant: the lookup is made with prices[productId], which inserts a
\* value-initialised entry for an absent key
findBySubscript(m, id) == IF id \in DOMAIN m THEN m ELSE Put(m, id, 0)

\* the map after prices.find(productId): a lookup, no entry is made
find(m, id) == m

\* the value of size() and of getAllPrices() on a map
size(m) == Cardinality(DOMAIN m)

getAllPrices(m) == m

\* getPrice: it->second when found, 0.0 otherwise; the map is not changed
getPrice(m, id) == IF id \in DOMAIN m THEN m[id] ELSE 0

\* mutant: an existing entry is kept
setPriceIfAbsent(m, id, v) == IF id \in DOMAIN m THEN m ELSE Put(m, id, v)

\* setPrice: prices[productId] = price
setPrice(m, id, v) == Put(m, id, v)

\* mutants of the condition: "<=" for "<", and the comparison reversed
IsLowerOrEqual(m, id, v) == id \notin DOMAIN m \/ v <= m[id]

IsHigher(m, id, v) == id \notin DOMAIN m \/ v > m[id]

\* the condition of updatePriceIfLower
IsLower(m, id, v) == id \notin DOMAIN m \/ v < m[id]

\* std::map iterates its keys in key order
ProductSeq == <<"P1", "P2">>

KeyOrd(k) == CHOOSE i \in 1..Len(ProductSeq) : ProductSeq[i] = k

\* the first key of m after position n of the key order ("end" when none)
NextKey(m, n) ==
  LET later == {k \in DOMAIN m : KeyOrd(k) > n}
  IN  IF later = {} THEN "end"
      ELSE CHOOSE k \in later : \A j \in later : KeyOrd(k) <= KeyOrd(j)

(***************************************************************************)
(* std::shared_mutex rwMutex                                               *)
(***************************************************************************)
\* mutant: a reader waits for the other readers too
CanLockSharedAlone == rwMutex.w = None /\ rwMutex.r = {}

\* std::shared_lock: granted while no thread holds the mutex exclusively
CanLockShared == rwMutex.w = None

\* mutant: a writer that does not wait for the readers to leave
CanLockUniqueDespiteReaders == rwMutex.w = None

\* std::unique_lock: granted while no thread holds the mutex at all
CanLockUnique == rwMutex.w = None /\ rwMutex.r = {}

IsWriteOp(o) == o \in {"set", "upd"}

Calls ==
  [op : {"set", "upd"}, id : Products, val : Values]
    \cup [op : {"get"}, id : Products, val : {None}]
    \cup [op : {"getAll", "size"}, id : {"*"}, val : {None}]

NoCall == [op |-> "none", id |-> "*", val |-> None]

NoTmp == [copy |-> EmptyMap, pos |-> 0]

\* the elements of a sequence, and a sequence without the element t
Range(q) == {q[i] : i \in 1..Len(q)}

Without(q, t) == SelectSeq(q, LAMBDA x : x # t)

\* u took its unique_lock before t did
Before(u, t) ==
  \E i, j \in 1..Len(acqOrder) : i < j /\ acqOrder[i] = u /\ acqOrder[j] = t

\* the scenario of the lowest-price race: only updatePriceIfLower is called
MinCalls == [op : {"upd"}, id : Products, val : MinValues]

\* a freshly constructed table: empty map, free mutex, no call in progress
InitTableOf(C) ==
  /\ prices = EmptyMap
  /\ rwMutex = [w |-> None, r |-> {}]
  /\ cpc = [t \in C |-> "idle"]
  /\ cop = [t \in C |-> NoCall]
  /\ cret = [t \in C |-> None]
  /\ ctmp = [t \in C |-> NoTmp]
  /\ ncalls = 0
  /\ acqOrder = <<>>
  /\ overtaken = [t \in C |-> FALSE]
  /\ lastW = [k \in Products |-> None]
  /\ cpre = [t \in C |-> EmptyMap]
  /\ cseen = [t \in C |-> {}]
  /\ updVals = [k \in Products |-> {}]
  /\ updTrue = [k \in Products |-> {}]
  /\ mixed = [k \in Products |-> FALSE]

InitTable == InitTableOf(Clients)

InitMin == InitTableOf(MinClients)

\* history: every getAllPrices call in progress sees the table a store produces
Observe(newTable) ==
  cseen' = [u \in DOMAIN cpc |->
              IF cop[u].op = "getAll" /\ cpc[u] \in {"lock", "copy"}
              THEN cseen[u] \cup {newTable} ELSE cseen[u]]

\* history of the updatePriceIfLower calls of a key, kept while the key has
\* seen nothing but updatePriceIfLower calls with distinct values
NoteCall(c) ==
  IF c.op \in {"set", "upd"}
  THEN LET spoilt == mixed[c.id] \/ c.op = "set" \/ c.val \in updVals[c.id]
       IN  /\ mixed' = [mixed EXCEPT ![c.id] = spoilt]
           /\ updVals' = [updVals EXCEPT ![c.id] = IF spoilt THEN {} ELSE @ \cup {c.val}]
           /\ updTrue' = [updTrue EXCEPT ![c.id] = IF spoilt THEN {} ELSE @]
  ELSE UNCHANGED <<mixed, updVals, updTrue>>

\* a thread enters one of the four operations
TCall(t, c) ==
  /\ cpc[t] = "idle"
  /\ ncalls < MaxCalls
  /\ ncalls' = ncalls + 1
  /\ cop' = [cop EXCEPT ![t] = c]
  /\ cpc' = [cpc EXCEPT ![t] = "lock"]
  /\ cseen' = [cseen EXCEPT ![t] = IF c.op = "getAll" THEN {prices} ELSE {}]
  /\ NoteCall(c)
  /\ UNCHANGED <<prices, rwMutex, cret, ctmp, acqOrder, overtaken, lastW, cpre>>
  /\ UNCHANGED otherThanTable

\* std::shared_lock<std::shared_mutex> lock(rwMutex) of getPrice / getAllPrices
TLockShared(t) ==
  /\ cpc[t] = "lock"
  /\ ~IsWriteOp(cop[t].op)
  /\ CanLockShared
  /\ rwMutex' = [rwMutex EXCEPT !.r = @ \cup {t}]
  /\ cpc' = [cpc EXCEPT ![t] = IF cop[t].op = "get" THEN "read"
                               ELSE IF cop[t].op = "size" THEN "size" ELSE "copy"]
  /\ UNCHANGED <<prices, cop, cret, ctmp, ncalls, acqOrder, overtaken, lastW, cpre,
                 cseen, updVals, updTrue, mixed>>
  /\ UNCHANGED otherThanTable

\* mutant: the writers take the mutex shared, as the readers do
TLockUniqueAsShared(t) ==
  /\ cpc[t] = "lock"
  /\ IsWriteOp(cop[t].op)
  /\ CanLockShared
  /\ rwMutex' = [rwMutex EXCEPT !.r = @ \cup {t}]
  /\ cpc' = [cpc EXCEPT ![t] = IF cop[t].op = "set" THEN "store" ELSE "check"]
  /\ acqOrder' = Append(acqOrder, t)
  /\ cpre' = [cpre EXCEPT ![t] = IF cop[t].op = "upd" THEN prices ELSE EmptyMap]
  /\ UNCHANGED <<prices, cop, cret, ctmp, ncalls, overtaken, lastW, cseen, updVals,
                 updTrue, mixed>>
  /\ UNCHANGED otherThanTable

\* std::unique_lock<std::shared_mutex> lock(rwMutex) of setPrice / updatePriceIfLower
TLockUnique(t) ==
  /\ cpc[t] = "lock"
  /\ IsWriteOp(cop[t].op)
  /\ CanLockUnique
  /\ rwMutex' = [rwMutex EXCEPT !.w = t]
  /\ cpc' = [cpc EXCEPT ![t] = IF cop[t].op = "set" THEN "store" ELSE "check"]
  /\ acqOrder' = Append(acqOrder, t)
  /\ cpre' = [cpre EXCEPT ![t] = IF cop[t].op = "upd" THEN prices ELSE EmptyMap]
  /\ UNCHANGED <<prices, cop, cret, ctmp, ncalls, overtaken, lastW, cseen, updVals,
                 updTrue, mixed>>
  /\ UNCHANGED otherThanTable

\* getPrice: find, return it->second or 0.0
TGetPrice(t) ==
  /\ cpc[t] = "read"
  /\ cret' = [cret EXCEPT ![t] = getPrice(prices, cop[t].id)]
  /\ prices' = find(prices, cop[t].id)
  /\ cpc' = [cpc EXCEPT ![t] = "unlock"]
  /\ UNCHANGED <<rwMutex, cop, ctmp, ncalls, acqOrder, overtaken, lastW, cpre,
                 cseen, updVals, updTrue, mixed>>
  /\ UNCHANGED otherThanTable

\* size: return prices.size()
TSize(t) ==
  /\ cpc[t] = "size"
  /\ cret' = [cret EXCEPT ![t] = size(prices)]
  /\ cpc' = [cpc EXCEPT ![t] = "unlock"]
  /\ UNCHANGED <<prices, rwMutex, cop, ctmp, ncalls, acqOrder, overtaken, lastW, cpre,
                 cseen, updVals, updTrue, mixed>>
  /\ UNCHANGED otherThanTable

\* getAllPrices: "return prices" copies the map entry by entry, in key order
TCopyEntry(t) ==
  /\ cpc[t] = "copy"
  /\ LET k == NextKey(prices, ctmp[t].pos)
     IN  IF k = "end"
         THEN /\ cret' = [cret EXCEPT ![t] = ctmp[t].copy]
              /\ cpc' = [cpc EXCEPT ![t] = "unlock"]
              /\ ctmp' = [ctmp EXCEPT ![t] = NoTmp]
         ELSE /\ ctmp' = [ctmp EXCEPT ![t] =
                            [copy |-> Put(@.copy, k, prices[k]), pos |-> KeyOrd(k)]]
              /\ UNCHANGED <<cret, cpc>>
  /\ UNCHANGED <<prices, rwMutex, cop, ncalls, acqOrder, overtaken, lastW, cpre, cseen,
                 updVals, updTrue, mixed>>
  /\ UNCHANGED otherThanTable

\* the store "prices[productId] = price" of setPrice and of updatePriceIfLower
\* (which then returns true)
TStore(t) ==
  /\ cpc[t] = "store"
  /\ prices' = setPrice(prices, cop[t].id, cop[t].val)
  /\ cret' = [cret EXCEPT ![t] = IF cop[t].op = "upd" THEN TRUE ELSE None]
  /\ cpc' = [cpc EXCEPT ![t] = "unlock"]
  /\ lastW' = [lastW EXCEPT ![cop[t].id] = IF overtaken[t] THEN @ ELSE cop[t].val]
  /\ overtaken' = [u \in DOMAIN cpc |->
                     overtaken[u] \/ (/\ Before(u, t)
                                      /\ cop[u].id = cop[t].id
                                      /\ cpc[u] \in {"check", "store"})]
  /\ updTrue' = [updTrue EXCEPT ![cop[t].id] =
                   IF cop[t].op = "upd" /\ ~mixed[cop[t].id] THEN @ \cup {cop[t].val} ELSE @]
  /\ Observe(prices')
  /\ UNCHANGED <<rwMutex, cop, ctmp, ncalls, acqOrder, cpre, updVals, mixed>>
  /\ UNCHANGED otherThanTable

\* updatePriceIfLower: "if (it == prices.end() || newPrice < it->second)",
\* "return false" when the condition fails
TCheck(t) ==
  /\ cpc[t] = "check"
  /\ IF IsLower(prices, cop[t].id, cop[t].val)
     THEN /\ cpc' = [cpc EXCEPT ![t] = "store"]
          /\ UNCHANGED cret
     ELSE /\ cpc' = [cpc EXCEPT ![t] = "unlock"]
          /\ cret' = [cret EXCEPT ![t] = FALSE]
  /\ UNCHANGED <<prices, rwMutex, cop, ctmp, ncalls, acqOrder, overtaken, lastW, cpre,
                 cseen, updVals, updTrue, mixed>>
  /\ UNCHANGED otherThanTable

\* the lock object goes out of scope: the mutex is released and the call returns
TUnlock(t) ==
  /\ cpc[t] = "unlock"
  /\ rwMutex' = [w |-> IF rwMutex.w = t THEN None ELSE rwMutex.w,
                 r |-> rwMutex.r \ {t}]
  /\ cpc' = [cpc EXCEPT ![t] = "idle"]
  /\ cop' = [cop EXCEPT ![t] = NoCall]
  /\ cret' = [cret EXCEPT ![t] = None]
  /\ acqOrder' = Without(acqOrder, t)
  /\ overtaken' = [overtaken EXCEPT ![t] = FALSE]
  /\ cpre' = [cpre EXCEPT ![t] = EmptyMap]
  /\ cseen' = [cseen EXCEPT ![t] = {}]
  /\ UNCHANGED <<prices, ctmp, ncalls, lastW, updVals, updTrue, mixed>>
  /\ UNCHANGED otherThanTable

(***************************************************************************)
(* ThreadSafeLogger                                                        *)
(***************************************************************************)
\* the state the constructor leaves: the file opened or not, the writer
\* thread started; no log() call in progress
LoggerConstructed ==
  /\ logQueue = <<>>
  /\ logMutex = "free"
  /\ logStopFlag = FALSE
  /\ cvWaiting = FALSE
  /\ wpc = "loop"
  /\ wmsg = None
  /\ fileOpen \in BOOLEAN
  /\ fileLines = <<>>
  /\ ppc = [p \in Producers |-> "idle"]
  /\ pmsg = [p \in Producers |-> None]
  /\ nmsg = 0
  /\ opc = "run"
  /\ preStop = {}

\* the wait predicate "!logQueue.empty() || stopFlag.load()"
WaitPred == logQueue # <<>> \/ logStopFlag

\* log(): lock_guard, logQueue.push(message), unlock
LogPush(p) ==
  /\ ppc[p] = "idle"
  /\ opc \in {"run", "stopflag", "notify", "stopped"}
  /\ nmsg < MaxMsgs
  /\ logMutex = "free"
  /\ nmsg' = nmsg + 1
  /\ logQueue' = Append(logQueue, nmsg + 1)
  /\ pmsg' = [pmsg EXCEPT ![p] = nmsg + 1]
  /\ ppc' = [ppc EXCEPT ![p] = "notify"]
  /\ UNCHANGED <<logMutex, logStopFlag, cvWaiting, wpc, wmsg, fileOpen, fileLines,
                 opc, preStop>>
  /\ UNCHANGED otherThanLog

\* log(): cv.notify_one(), return
LogNotify(p) ==
  /\ ppc[p] = "notify"
  /\ cvWaiting' = FALSE
  /\ ppc' = [ppc EXCEPT ![p] = "idle"]
  /\ pmsg' = [pmsg EXCEPT ![p] = None]
  /\ preStop' = IF opc = "run" THEN preStop \cup {pmsg[p]} ELSE preStop
  /\ UNCHANGED <<logQueue, logMutex, logStopFlag, wpc, wmsg, fileOpen, fileLines,
                 nmsg, opc>>
  /\ UNCHANGED otherThanLog

\* stop(): stopFlag = true
StopSetFlag ==
  /\ opc = "run"
  /\ logStopFlag' = TRUE
  /\ opc' = "notify"
  /\ UNCHANGED <<logQueue, logMutex, cvWaiting, wpc, wmsg, fileOpen, fileLines,
                 ppc, pmsg, nmsg, preStop>>
  /\ UNCHANGED otherThanLog

\* stop(): cv.notify_all(), return
StopNotifyAll ==
  /\ opc = "notify"
  /\ cvWaiting' = FALSE
  /\ opc' = "stopped"
  /\ UNCHANGED <<logQueue, logMutex, logStopFlag, wpc, wmsg, fileOpen, fileLines,
                 ppc, pmsg, nmsg, preStop>>
  /\ UNCHANGED otherThanLog

\* mutant: the destructor does not wait for the writer thread
DtorJoinDetached ==
  /\ opc = "stopped"
  /\ opc' = "joined"
  /\ UNCHANGED <<logQueue, logMutex, logStopFlag, cvWaiting, wpc, wmsg, fileOpen,
                 fileLines, ppc, pmsg, nmsg, preStop>>
  /\ UNCHANGED otherThanLog

\* ~ThreadSafeLogger: (stop(), then) writerThread.join()
DtorJoin ==
  /\ opc = "stopped"
  /\ wpc = "exit"
  /\ opc' = "joined"
  /\ UNCHANGED <<logQueue, logMutex, logStopFlag, cvWaiting, wpc, wmsg, fileOpen,
                 fileLines, ppc, pmsg, nmsg, preStop>>
  /\ UNCHANGED otherThanLog

\* ~ThreadSafeLogger: if (logFile.is_open()) logFile.close()
DtorClose ==
  /\ opc = "joined"
  /\ opc' = "closed"
  /\ fileOpen' = FALSE
  /\ UNCHANGED <<logQueue, logMutex, logStopFlag, cvWaiting, wpc, wmsg, fileLines,
                 ppc, pmsg, nmsg, preStop>>
  /\ UNCHANGED otherThanLog

\* mutant: the loop ends as soon as the stop flag is set
WLoopFlagOnlyExit ==
  /\ wpc = "loop"
  /\ wpc' = IF ~logStopFlag THEN "lock" ELSE "exit"
  /\ UNCHANGED <<logQueue, logMutex, logStopFlag, cvWaiting, wmsg, fileOpen,
                 fileLines, ppc, pmsg, nmsg, opc, preStop>>
  /\ UNCHANGED otherThanLog

\* writerThreadFunc: "while (!stopFlag || ...": the read of the flag; when it
\* is not set the body is entered without looking at the queue
WLoopFlag ==
  /\ wpc = "loop"
  /\ wpc' = IF ~logStopFlag THEN "lock" ELSE "loopq"
  /\ UNCHANGED <<logQueue, logMutex, logStopFlag, cvWaiting, wmsg, fileOpen,
                 fileLines, ppc, pmsg, nmsg, opc, preStop>>
  /\ UNCHANGED otherThanLog

\* writerThreadFunc: "... || !logQueue.empty())": the queue is read without
\* the mutex; the thread function returns when it is empty
WLoopQueue ==
  /\ wpc = "loopq"
  /\ wpc' = IF logQueue # <<>> THEN "lock" ELSE "exit"
  /\ UNCHANGED <<logQueue, logMutex, logStopFlag, cvWaiting, wmsg, fileOpen,
                 fileLines, ppc, pmsg, nmsg, opc, preStop>>
  /\ UNCHANGED otherThanLog

\* writerThreadFunc: std::unique_lock<std::mutex> lock(queueMutex), and
\* lock.lock() after a message was written
WLock ==
  /\ wpc \in {"lock", "relock"}
  /\ logMutex = "free"
  /\ logMutex' = Writer
  /\ wpc' = IF wpc = "lock" THEN "pred" ELSE "inner"
  /\ UNCHANGED <<logQueue, logStopFlag, cvWaiting, wmsg, fileOpen, fileLines, ppc,
                 pmsg, nmsg, opc, preStop>>
  /\ UNCHANGED otherThanLog

\* cv.wait(lock, pred): the predicate is evaluated with the mutex held
WPred ==
  /\ wpc = "pred"
  /\ wpc' = IF WaitPred THEN "inner" ELSE "wait"
  /\ UNCHANGED <<logQueue, logMutex, logStopFlag, cvWaiting, wmsg, fileOpen,
                 fileLines, ppc, pmsg, nmsg, opc, preStop>>
  /\ UNCHANGED otherThanLog

\* cv.wait(lock, pred): the predicate was false: the mutex is released and
\* the thread blocks, in one step
WWait ==
  /\ wpc = "wait"
  /\ logMutex' = "free"
  /\ cvWaiting' = TRUE
  /\ wpc' = "blocked"
  /\ UNCHANGED <<logQueue, logStopFlag, wmsg, fileOpen, fileLines, ppc, pmsg, nmsg,
                 opc, preStop>>
  /\ UNCHANGED otherThanLog

\* cv.wait(lock, pred): a spurious wakeup
WSpurious ==
  /\ wpc = "blocked"
  /\ cvWaiting
  /\ cvWaiting' = FALSE
  /\ UNCHANGED <<logQueue, logMutex, logStopFlag, wpc, wmsg, fileOpen, fileLines,
                 ppc, pmsg, nmsg, opc, preStop>>
  /\ UNCHANGED otherThanLog

\* cv.wait(lock, pred): woken, the thread takes the mutex again and evaluates
\* the predicate again
WWake ==
  /\ wpc = "blocked"
  /\ ~cvWaiting
  /\ logMutex = "free"
  /\ logMutex' = Writer
  /\ wpc' = "pred"
  /\ UNCHANGED <<logQueue, logStopFlag, cvWaiting, wmsg, fileOpen, fileLines, ppc,
                 pmsg, nmsg, opc, preStop>>
  /\ UNCHANGED otherThanLog

\* mutant: no lock.unlock() before the write
WInnerKeepsLock ==
  /\ wpc = "inner"
  /\ IF logQueue # <<>>
     THEN /\ wmsg' = Head(logQueue)
          /\ logQueue' = Tail(logQueue)
          /\ logMutex' = Writer
          /\ wpc' = "write"
     ELSE /\ wpc' = "loop"
          /\ logMutex' = "free"
          /\ UNCHANGED <<wmsg, logQueue>>
  /\ UNCHANGED <<logStopFlag, cvWaiting, fileOpen, fileLines, ppc, pmsg, nmsg, opc,
                 preStop>>
  /\ UNCHANGED otherThanLog

\* mutant: the newest message is taken, not the front one
WInnerTakesBack ==
  /\ wpc = "inner"
  /\ logMutex' = "free"
  /\ IF logQueue # <<>>
     THEN /\ wmsg' = logQueue[Len(logQueue)]
          /\ logQueue' = SubSeq(logQueue, 1, Len(logQueue) - 1)
          /\ wpc' = "write"
     ELSE /\ wpc' = "loop"
          /\ UNCHANGED <<wmsg, logQueue>>
  /\ UNCHANGED <<logStopFlag, cvWaiting, fileOpen, fileLines, ppc, pmsg, nmsg, opc,
                 preStop>>
  /\ UNCHANGED otherThanLog

\* "while (!logQueue.empty())": front, pop, lock.unlock(); with the queue
\* empty the body of the outer loop ends and the lock goes out of scope
WInner ==
  /\ wpc = "inner"
  /\ logMutex' = "free"
  /\ IF logQueue # <<>>
     THEN /\ wmsg' = Head(logQueue)
          /\ logQueue' = Tail(logQueue)
          /\ wpc' = "write"
     ELSE /\ wpc' = "loop"
          /\ UNCHANGED <<wmsg, logQueue>>
  /\ UNCHANGED <<logStopFlag, cvWaiting, fileOpen, fileLines, ppc, pmsg, nmsg, opc,
                 preStop>>
  /\ UNCHANGED otherThanLog

\* "if (logFile.is_open()) { logFile << message << std::endl; flush }"
WWrite ==
  /\ wpc = "write"
  /\ fileLines' = IF fileOpen THEN Append(fileLines, wmsg) ELSE fileLines
  /\ wmsg' = None
  /\ wpc' = "relock"
  /\ UNCHANGED <<logQueue, logMutex, logStopFlag, cvWaiting, fileOpen, ppc, pmsg,
                 nmsg, opc, preStop>>
  /\ UNCHANGED otherThanLog

(***************************************************************************)
(* ThreadManager: the owner thread calls startPricing / startWorkers,      *)
(* addTask, stopAll and waitAll; the execution units are the merchant      *)
(* threads (fixed mode) and the pool workers (pool mode).  The price table *)
(* operations are atomic here (their lock level is SpecTable) and          *)
(* logger->log adds the message to unitLog (its queue level is SpecLog).   *)
(***************************************************************************)
\* the merchants handed to startPricing: two of them list the same product
MerchantList ==
  << [name |-> "A", products |-> <<"P1", "P2">>],
     [name |-> "B", products |-> <<"P1">>] >>

MerchantIds == {MerchantList[i].name : i \in DOMAIN MerchantList}

ProductsOf(u) ==
  LET i == CHOOSE j \in DOMAIN MerchantList : MerchantList[j].name = u
  IN  MerchantList[i].products

\* workerName = "Worker-" + std::to_string(i)
WorkerName(i) == "Worker-" \o ToString(i)

WorkerIds == {WorkerName(i) : i \in 0 .. NumWorkers - 1}

Units == MerchantIds \cup WorkerIds

Prices == 1 .. MaxPrice

\* the first price of a product, drawn by priceDist(gen)
SeedPrices == {2}

\* a default constructed PricingTask; id is the history name of the task
NoTask ==
  [id |-> None, merchantName |-> "", productId |-> "", basePrice |-> 0,
   adjustedPrice |-> 0, success |-> FALSE]

\* the tasks a caller hands to addTask
PoolTasks == {[NoTask EXCEPT !.merchantName = "A", !.productId = p] : p \in Products}

\* result.newPrice of calculatePrice: any price clampPrice lets through,
\* basePrice * 0.5 <= newPrice <= basePrice * 2.0
PricingResult(base) == {x \in Prices : 2 * x >= base /\ x <= 2 * base}

RECURSIVE SumLen(_, _)
SumLen(list, n) ==
  IF n = 0 THEN 0 ELSE Len(list[n].products) + SumLen(list, n - 1)

\* history name of the task a merchant thread runs for its n-th product
MerchantTaskId(u, n) ==
  LET i == CHOOSE j \in DOMAIN MerchantList : MerchantList[j].name = u
  IN  SumLen(MerchantList, i - 1) + n

QueuedIds == {taskQueue[i].id : i \in DOMAIN taskQueue}

LogMsg(who, what, id) == [who |-> who, what |-> what, task |-> id]

\* the ThreadManager after its constructor: flag false, counters 0, no thread
ManagerConstructed ==
  /\ stopFlag = FALSE
  /\ priceHistory = <<>>
  /\ totalTasks = 0
  /\ successTasks = 0
  /\ failedTasks = 0
  /\ taskQueue = <<>>
  /\ queueMutex = "free"
  /\ queueWaiters = {}
  /\ merchantThreads = {}
  /\ upc = [u \in Units |-> "none"]
  /\ utask = [u \in Units |-> NoTask]
  /\ uidx = [u \in Units |-> 0]
  /\ mpc = "ready"
  /\ mode = "none"
  /\ unitLog = {LogMsg("main", "=== Pricing System Started ===", None)}
  /\ ntasks = 0
  /\ started = {}
  /\ setters = {}
  /\ lastSet = [p \in Products |-> None]
  /\ lastDone = [p \in Products |-> None]
  /\ submitted = 0
  /\ preStopTasks = {}
  /\ stopEver = FALSE
  /\ addAfterStop = FALSE
  /\ waited = FALSE
  /\ rewaited = FALSE
  /\ logCall = [t \in Units \cup {"main"} |-> <<>>]
  /\ logged = {}

\* mutant: a thread for the first merchant only
startPricingFirstOnly ==
  /\ mpc = "ready"
  /\ mode = "none"
  /\ stopFlag' = FALSE
  /\ merchantThreads' = merchantThreads \cup {MerchantList[1].name}
  /\ upc' = [u \in Units |-> IF u = MerchantList[1].name THEN "start" ELSE upc[u]]
  /\ uidx' = [u \in Units |-> IF u \in MerchantIds THEN 1 ELSE uidx[u]]
  /\ mode' = "fixed"
  /\ unitLog' = unitLog \cup {LogMsg("main", "All merchant threads started", None)}
  /\ submitted' = SumLen(MerchantList, Len(MerchantList))
  /\ ntasks' = SumLen(MerchantList, Len(MerchantList))
  /\ UNCHANGED <<prices, priceHistory, counterVars, queueVars, utask, mpc, started,
                 setters, lastSet, lastDone,
                 preStopTasks, stopEver, addAfterStop, waited, rewaited>>
  /\ UNCHANGED otherThanMgr

\* startPricing: clear the flag, one thread per merchant
startPricing ==
  /\ mpc = "ready"
  /\ mode = "none"
  /\ stopFlag' = FALSE
  /\ merchantThreads' = merchantThreads \cup MerchantIds
  /\ upc' = [u \in Units |-> IF u \in MerchantIds THEN "start" ELSE upc[u]]
  /\ uidx' = [u \in Units |-> IF u \in MerchantIds THEN 1 ELSE uidx[u]]
  /\ mode' = "fixed"
  /\ unitLog' = unitLog \cup {LogMsg("main", "All merchant threads started", None)}
  /\ submitted' = SumLen(MerchantList, Len(MerchantList))
  /\ ntasks' = SumLen(MerchantList, Len(MerchantList))
  /\ UNCHANGED <<prices, priceHistory, counterVars, queueVars, utask, mpc, started,
                 setters, lastSet, lastDone,
                 preStopTasks, stopEver, addAfterStop, waited, rewaited>>
  /\ UNCHANGED otherThanMgr

\* startPricing called again, with an empty list of merchants: the flag is
\* cleared, no thread is created, the message is logged.  (With the flag
\* already clear the call changes nothing, so only calls that find it set
\* are steps.)
startPricingNoMerchants ==
  /\ mpc = "ready"
  /\ mode = "fixed"
  /\ stopFlag
  /\ stopFlag' = FALSE
  /\ unitLog' = unitLog \cup {LogMsg("main", "All merchant threads started", None)}
  /\ UNCHANGED <<prices, priceHistory, counterVars, queueVars, unitVars, mpc, mode,
                 merchantThreads, taskHist, runHist>>
  /\ UNCHANGED otherThanMgr

\* startWorkers(numWorkers): clear the flag, numWorkers threads
startWorkers(n) ==
  /\ mpc = "ready"
  /\ mode = "none"
  /\ stopFlag' = FALSE
  /\ LET W == {WorkerName(i) : i \in 0 .. n - 1}
     IN  /\ merchantThreads' = merchantThreads \cup W
         /\ upc' = [u \in Units |-> IF u \in W THEN "start" ELSE upc[u]]
  /\ mode' = "pool"
  /\ UNCHANGED <<prices, priceHistory, counterVars, queueVars, utask, uidx, mpc,
                 unitLog, taskHist, runHist>>
  /\ UNCHANGED otherThanMgr

\* addTask, the block under lock_guard: taskQueue.push(task)
addTask(task) ==
  /\ mpc = "ready"
  /\ mode = "pool"
  /\ submitted < MaxTasks
  /\ queueMutex = "free"
  /\ taskQueue' = Append(taskQueue, [task EXCEPT !.id = ntasks + 1])
  /\ ntasks' = ntasks + 1
  /\ submitted' = submitted + 1
  /\ addAfterStop' = (addAfterStop \/ stopEver)
  /\ mpc' = "notify"
  /\ UNCHANGED <<prices, stopFlag, priceHistory, counterVars, queueMutex,
                 queueWaiters, unitVars, mode, merchantThreads, unitLog, started,
                 setters, lastSet, lastDone, preStopTasks, stopEver, waited,
                 rewaited>>
  /\ UNCHANGED otherThanMgr

\* mutant: addTask returns without notify_one
addTaskNotifyOmitted ==
  /\ mpc = "notify"
  /\ queueWaiters' = queueWaiters
  /\ mpc' = "ready"
  /\ UNCHANGED <<prices, stopFlag, priceHistory, counterVars, taskQueue, queueMutex,
                 unitVars, mode, merchantThreads, unitLog, taskHist, runHist>>
  /\ UNCHANGED otherThanMgr

\* addTask, after the block: queueCV.notify_one()
addTaskNotify ==
  /\ mpc = "notify"
  /\ \/ queueWaiters = {} /\ UNCHANGED queueWaiters
     \/ \E w \in queueWaiters : queueWaiters' = queueWaiters \ {w}
  /\ mpc' = "ready"
  /\ UNCHANGED <<prices, stopFlag, priceHistory, counterVars, taskQueue, queueMutex,
                 unitVars, mode, merchantThreads, unitLog, taskHist, runHist>>
  /\ UNCHANGED otherThanMgr

\* stopAll, first statement: stopFlag = true (queueMutex is not taken)
stopAll ==
  /\ mpc = "ready"
  /\ mode # "none"
  /\ ~stopEver
  /\ stopFlag' = TRUE
  /\ stopEver' = TRUE
  /\ preStopTasks' = IF mode = "pool" THEN 1 .. ntasks ELSE {}
  /\ mpc' = "stopnotify"
  /\ UNCHANGED <<prices, priceHistory, counterVars, queueVars, unitVars, mode,
                 merchantThreads, unitLog, taskHist, submitted, addAfterStop, waited,
                 rewaited>>
  /\ UNCHANGED otherThanMgr

\* stopAll, second statement: queueCV.notify_all()
stopAllNotify ==
  /\ mpc = "stopnotify"
  /\ queueWaiters' = {}
  /\ mpc' = "ready"
  /\ UNCHANGED <<prices, stopFlag, priceHistory, counterVars, taskQueue, queueMutex,
                 unitVars, mode, merchantThreads, unitLog, taskHist, runHist>>
  /\ UNCHANGED otherThanMgr

\* mutant: waitAll returns without joining
waitAllDetached ==
  /\ mpc = "ready"
  /\ mode # "none"
  /\ ~rewaited
  /\ merchantThreads' = {}
  /\ waited' = TRUE
  /\ rewaited' = waited
  /\ UNCHANGED <<prices, stopFlag, priceHistory, counterVars, queueVars, unitVars,
                 mpc, mode, unitLog, taskHist, submitted, preStopTasks, stopEver,
                 addAfterStop>>
  /\ UNCHANGED otherThanMgr

\* waitAll: the joins block until every thread of the registry has ended, so
\* the call takes effect when they have; then merchantThreads.clear().  The
\* call may be repeated.
waitAll ==
  /\ mpc = "ready"
  /\ mode # "none"
  /\ ~rewaited
  /\ \A u \in merchantThreads : upc[u] = "done"
  /\ merchantThreads' = {}
  /\ waited' = TRUE
  /\ rewaited' = waited
  /\ UNCHANGED <<prices, stopFlag, priceHistory, counterVars, queueVars, unitVars,
                 mpc, mode, unitLog, taskHist, submitted, preStopTasks, stopEver,
                 addAfterStop>>
  /\ UNCHANGED otherThanMgr

\* ~ThreadManager, stopAll(): stopFlag = true
dtorStopAll ==
  /\ mpc = "ready"
  /\ mode # "none"
  /\ stopFlag' = TRUE
  /\ mpc' = "dtornotify"
  /\ UNCHANGED <<prices, priceHistory, counterVars, queueVars, unitVars, mode,
                 merchantThreads, unitLog, taskHist, runHist>>
  /\ UNCHANGED otherThanMgr

\* ~ThreadManager, stopAll(): queueCV.notify_all()
dtorNotify ==
  /\ mpc = "dtornotify"
  /\ queueWaiters' = {}
  /\ mpc' = "dtorjoin"
  /\ UNCHANGED <<prices, stopFlag, priceHistory, counterVars, taskQueue, queueMutex,
                 unitVars, mode, merchantThreads, unitLog, taskHist, runHist>>
  /\ UNCHANGED otherThanMgr

\* ~ThreadManager, waitAll(): every thread joined; the destructor body has
\* ended and the members are released next
dtorWaitAll ==
  /\ mpc = "dtorjoin"
  /\ \A u \in merchantThreads : upc[u] = "done"
  /\ merchantThreads' = {}
  /\ mpc' = "destroyed"
  /\ UNCHANGED <<prices, stopFlag, priceHistory, counterVars, queueVars, unitVars,
                 mode, unitLog, taskHist, runHist>>
  /\ UNCHANGED otherThanMgr

\* the first statement of a thread: logger->log("... Started")
unitStart(u) ==
  /\ upc[u] = "start"
  /\ upc' = [upc EXCEPT ![u] = "loop"]
  /\ unitLog' = unitLog \cup {LogMsg(u, "Started", None)}
  /\ UNCHANGED <<prices, stopFlag, priceHistory, counterVars, queueVars, utask, uidx,
                 ownerVars, taskHist, runHist>>
  /\ UNCHANGED otherThanMgr

\* mutant: the stop flag is not read
merchantPricingThreadUnstoppable(u) ==
  /\ u \in MerchantIds
  /\ upc[u] = "loop"
  /\ IF uidx[u] > Len(ProductsOf(u))
       THEN /\ upc' = [upc EXCEPT ![u] = "done"]
            /\ unitLog' = unitLog \cup {LogMsg(u, "Completed", None)}
            /\ UNCHANGED <<utask, ntasks, started>>
       ELSE IF FALSE
         THEN /\ upc' = [upc EXCEPT ![u] = "done"]
              /\ unitLog' = unitLog \cup {LogMsg(u, "Stopped by signal", None),
                                          LogMsg(u, "Completed", None)}
              /\ UNCHANGED <<utask, ntasks, started>>
         ELSE /\ upc' = [upc EXCEPT ![u] = "get"]
              /\ utask' = [utask EXCEPT ![u] =
                             [NoTask EXCEPT !.id = MerchantTaskId(u, uidx[u]),
                                            !.merchantName = u,
                                            !.productId = ProductsOf(u)[uidx[u]]]]
              /\ started' = started \cup {MerchantTaskId(u, uidx[u])}
              /\ UNCHANGED <<ntasks, unitLog>>
  /\ UNCHANGED <<prices, stopFlag, priceHistory, counterVars, queueVars, uidx,
                 ownerVars, setters, lastSet, lastDone, runHist>>
  /\ UNCHANGED otherThanMgr

\* merchantPricingThread, head of the for loop: end of the products, or
\* stopFlag is set, or executePricingTask is called for the next product
merchantPricingThread(u) ==
  /\ u \in MerchantIds
  /\ upc[u] = "loop"
  /\ IF uidx[u] > Len(ProductsOf(u))
       THEN /\ upc' = [upc EXCEPT ![u] = "done"]
            /\ unitLog' = unitLog \cup {LogMsg(u, "Completed", None)}
            /\ UNCHANGED <<utask, ntasks, started>>
       ELSE IF stopFlag
         THEN /\ upc' = [upc EXCEPT ![u] = "done"]
              /\ unitLog' = unitLog \cup {LogMsg(u, "Stopped by signal", None),
                                          LogMsg(u, "Completed", None)}
              /\ UNCHANGED <<utask, ntasks, started>>
         ELSE /\ upc' = [upc EXCEPT ![u] = "get"]
              /\ utask' = [utask EXCEPT ![u] =
                             [NoTask EXCEPT !.id = MerchantTaskId(u, uidx[u]),
                                            !.merchantName = u,
                                            !.productId = ProductsOf(u)[uidx[u]]]]
              /\ started' = started \cup {MerchantTaskId(u, uidx[u])}
              /\ UNCHANGED <<ntasks, unitLog>>
  /\ UNCHANGED <<prices, stopFlag, priceHistory, counterVars, queueVars, uidx,
                 ownerVars, setters, lastSet, lastDone, runHist>>
  /\ UNCHANGED otherThanMgr

\* worker, while (!stopFlag)
workerLoop(u) ==
  /\ u \in WorkerIds
  /\ upc[u] = "loop"
  /\ IF stopFlag
       THEN /\ upc' = [upc EXCEPT ![u] = "done"]
            /\ unitLog' = unitLog \cup {LogMsg(u, "Stopped", None)}
       ELSE /\ upc' = [upc EXCEPT ![u] = "qlock"]
            /\ UNCHANGED unitLog
  /\ UNCHANGED <<prices, stopFlag, priceHistory, counterVars, queueVars, utask, uidx,
                 ownerVars, taskHist, runHist>>
  /\ UNCHANGED otherThanMgr

\* worker, std::unique_lock lock(queueMutex)
workerLock(u) ==
  /\ upc[u] = "qlock"
  /\ queueMutex = "free"
  /\ queueMutex' = u
  /\ upc' = [upc EXCEPT ![u] = "qpred"]
  /\ UNCHANGED <<prices, stopFlag, priceHistory, counterVars, taskQueue, queueWaiters,
                 utask, uidx, ownerVars, unitLog, taskHist, runHist>>
  /\ UNCHANGED otherThanMgr

\* worker, the predicate of queueCV.wait: !taskQueue.empty() || stopFlag
workerPred(u) ==
  /\ upc[u] = "qpred"
  /\ upc' = [upc EXCEPT ![u] =
               IF taskQueue # <<>> \/ stopFlag THEN "qtake" ELSE "qwait"]
  /\ UNCHANGED <<prices, stopFlag, priceHistory, counterVars, queueVars, utask, uidx,
                 ownerVars, unitLog, taskHist, runHist>>
  /\ UNCHANGED otherThanMgr

\* worker, the predicate was false: release the mutex and block
workerWait(u) ==
  /\ upc[u] = "qwait"
  /\ queueMutex' = "free"
  /\ queueWaiters' = queueWaiters \cup {u}
  /\ upc' = [upc EXCEPT ![u] = "qblocked"]
  /\ UNCHANGED <<prices, stopFlag, priceHistory, counterVars, taskQueue, utask, uidx,
                 ownerVars, unitLog, taskHist, runHist>>
  /\ UNCHANGED otherThanMgr

\* worker, a spurious wakeup of the wait
workerSpurious(u) ==
  /\ upc[u] = "qblocked"
  /\ u \in queueWaiters
  /\ queueWaiters' = queueWaiters \ {u}
  /\ UNCHANGED <<prices, stopFlag, priceHistory, counterVars, taskQueue, queueMutex,
                 unitVars, ownerVars, unitLog, taskHist, runHist>>
  /\ UNCHANGED otherThanMgr

\* worker, woken: take the mutex again and evaluate the predicate again
workerWake(u) ==
  /\ upc[u] = "qblocked"
  /\ u \notin queueWaiters
  /\ queueMutex = "free"
  /\ queueMutex' = u
  /\ upc' = [upc EXCEPT ![u] = "qpred"]
  /\ UNCHANGED <<prices, stopFlag, priceHistory, counterVars, taskQueue, queueWaiters,
                 utask, uidx, ownerVars, unitLog, taskHist, runHist>>
  /\ UNCHANGED otherThanMgr

\* mutant: the task is executed inside the block, the mutex still locked
workerTakeLocked(u) ==
  /\ upc[u] = "qtake"
  /\ IF stopFlag /\ taskQueue = <<>>
       THEN /\ upc' = [upc EXCEPT ![u] = "done"]
            /\ queueMutex' = "free"
            /\ unitLog' = unitLog \cup {LogMsg(u, "Stopped", None)}
            /\ UNCHANGED <<taskQueue, utask, started>>
       ELSE IF taskQueue # <<>>
         THEN /\ upc' = [upc EXCEPT ![u] = "get"]
              /\ queueMutex' = u
              /\ utask' = [utask EXCEPT ![u] = Head(taskQueue)]
              /\ taskQueue' = Tail(taskQueue)
              /\ started' = started \cup {Head(taskQueue).id}
              /\ UNCHANGED unitLog
         ELSE /\ upc' = [upc EXCEPT ![u] = "loop"]
              /\ queueMutex' = "free"
              /\ UNCHANGED <<taskQueue, utask, started, unitLog>>
  /\ UNCHANGED <<prices, stopFlag, priceHistory, counterVars, queueWaiters, uidx,
                 ownerVars, ntasks, setters, lastSet, lastDone, runHist>>
  /\ UNCHANGED otherThanMgr

\* mutant: the front task is copied and left in the queue
workerTakePeeking(u) ==
  /\ upc[u] = "qtake"
  /\ queueMutex' = "free"
  /\ IF stopFlag /\ taskQueue = <<>>
       THEN /\ upc' = [upc EXCEPT ![u] = "done"]
            /\ unitLog' = unitLog \cup {LogMsg(u, "Stopped", None)}
            /\ UNCHANGED <<taskQueue, utask, started>>
       ELSE IF taskQueue # <<>>
         THEN /\ upc' = [upc EXCEPT ![u] = "get"]
              /\ utask' = [utask EXCEPT ![u] = Head(taskQueue)]
              /\ taskQueue' = taskQueue
              /\ started' = started \cup {Head(taskQueue).id}
              /\ UNCHANGED unitLog
         ELSE /\ upc' = [upc EXCEPT ![u] = "loop"]
              /\ UNCHANGED <<taskQueue, utask, started, unitLog>>
  /\ UNCHANGED <<prices, stopFlag, priceHistory, counterVars, queueWaiters, uidx,
                 ownerVars, ntasks, setters, lastSet, lastDone, runHist>>
  /\ UNCHANGED otherThanMgr

\* worker, after the wait: break when stopped and empty, else pop the front
\* task and call executePricingTask, else continue; the block ends and the
\* mutex is released
workerTake(u) ==
  /\ upc[u] = "qtake"
  /\ queueMutex' = "free"
  /\ IF stopFlag /\ taskQueue = <<>>
       THEN /\ upc' = [upc EXCEPT ![u] = "done"]
            /\ unitLog' = unitLog \cup {LogMsg(u, "Stopped", None)}
            /\ UNCHANGED <<taskQueue, utask, started>>
       ELSE IF taskQueue # <<>>
         THEN /\ upc' = [upc EXCEPT ![u] = "get"]
              /\ utask' = [utask EXCEPT ![u] = Head(taskQueue)]
              /\ taskQueue' = Tail(taskQueue)
              /\ started' = started \cup {Head(taskQueue).id}
              /\ UNCHANGED unitLog
         ELSE /\ upc' = [upc EXCEPT ![u] = "loop"]
              /\ UNCHANGED <<taskQueue, utask, started, unitLog>>
  /\ UNCHANGED <<prices, stopFlag, priceHistory, counterVars, queueWaiters, uidx,
                 ownerVars, ntasks, setters, lastSet, lastDone, runHist>>
  /\ UNCHANGED otherThanMgr

\* executePricingTask, steps 1 and 2: getPrice, the first price when it is
\* 0.0, task.basePrice; or an exception before task.basePrice is assigned
executeGetPrice(u) ==
  /\ upc[u] = "get"
  /\ LET currentPrice == getPrice(prices, utask[u].productId)
     IN  \/ /\ upc' = [upc EXCEPT ![u] = "catch"]
            /\ UNCHANGED utask
         \/ \E seed \in SeedPrices :
              /\ utask' = [utask EXCEPT ![u].basePrice =
                             IF currentPrice = 0 THEN seed ELSE currentPrice]
              /\ upc' = [upc EXCEPT ![u] = "calc"]
  /\ UNCHANGED <<prices, stopFlag, priceHistory, counterVars, queueVars, uidx,
                 ownerVars, unitLog, taskHist, runHist>>
  /\ UNCHANGED otherThanMgr

\* executePricingTask, steps 3 and 4: the context, calculatePrice,
\* task.adjustedPrice = newPrice; or an exception
executeCalculate(u) ==
  /\ upc[u] = "calc"
  /\ \/ /\ upc' = [upc EXCEPT ![u] = "catch"]
        /\ UNCHANGED utask
     \/ \E newPrice \in PricingResult(utask[u].basePrice) :
          /\ utask' = [utask EXCEPT ![u].adjustedPrice = newPrice]
          /\ upc' = [upc EXCEPT ![u] = "set"]
  /\ UNCHANGED <<prices, stopFlag, priceHistory, counterVars, queueVars, uidx,
                 ownerVars, unitLog, taskHist, runHist>>
  /\ UNCHANGED otherThanMgr

\* mutant: the base price is stored, not the new price
executeSetPriceStoresBase(u) ==
  /\ upc[u] = "set"
  /\ prices' = setPrice(prices, utask[u].productId, utask[u].basePrice)
  /\ utask' = [utask EXCEPT ![u].success = TRUE]
  /\ setters' = setters \cup {utask[u].id}
  /\ lastSet' = [lastSet EXCEPT ![utask[u].productId] = utask[u].id]
  /\ upc' = [upc EXCEPT ![u] = "log"]
  /\ UNCHANGED <<stopFlag, priceHistory, counterVars, queueVars, uidx, ownerVars,
                 unitLog, ntasks, started, lastDone, runHist>>
  /\ UNCHANGED otherThanMgr

\* executePricingTask, step 5: priceTable.setPrice, task.success = true
executeSetPrice(u) ==
  /\ upc[u] = "set"
  /\ prices' = setPrice(prices, utask[u].productId, utask[u].adjustedPrice)
  /\ utask' = [utask EXCEPT ![u].success = TRUE]
  /\ setters' = setters \cup {utask[u].id}
  /\ lastSet' = [lastSet EXCEPT ![utask[u].productId] = utask[u].id]
  /\ upc' = [upc EXCEPT ![u] = "log"]
  /\ UNCHANGED <<stopFlag, priceHistory, counterVars, queueVars, uidx, ownerVars,
                 unitLog, ntasks, started, lastDone, runHist>>
  /\ UNCHANGED otherThanMgr

\* executePricingTask, step 6: the message is built and logged and the task
\* is returned; or building or logging the message raises an exception
executeLog(u) ==
  /\ upc[u] = "log"
  /\ \/ /\ upc' = [upc EXCEPT ![u] = "catch"]
        /\ UNCHANGED <<unitLog, lastDone>>
     \/ /\ unitLog' = unitLog \cup {LogMsg(u, "price", utask[u].id)}
        /\ lastDone' = [lastDone EXCEPT ![utask[u].productId] = utask[u].adjustedPrice]
        /\ upc' = [upc EXCEPT ![u] = "record"]
  /\ UNCHANGED <<prices, stopFlag, priceHistory, counterVars, queueVars, utask, uidx,
                 ownerVars, ntasks, started, setters, lastSet, runHist>>
  /\ UNCHANGED otherThanMgr

\* mutant: the exception leaves executePricingTask and ends the thread
executeCatchRethrown(u) ==
  /\ upc[u] = "catch"
  /\ utask' = [utask EXCEPT ![u].success = FALSE,
                            ![u].adjustedPrice = utask[u].basePrice]
  /\ unitLog' = unitLog \cup {LogMsg(u, "[ERROR]", utask[u].id)}
  /\ upc' = [upc EXCEPT ![u] = "done"]
  /\ UNCHANGED <<prices, stopFlag, priceHistory, counterVars, queueVars, uidx,
                 ownerVars, taskHist, runHist>>
  /\ UNCHANGED otherThanMgr

\* executePricingTask, the catch block: success = false, adjustedPrice =
\* basePrice, the error is logged and the task is returned
executeCatch(u) ==
  /\ upc[u] = "catch"
  /\ utask' = [utask EXCEPT ![u].success = FALSE,
                            ![u].adjustedPrice = utask[u].basePrice]
  /\ unitLog' = unitLog \cup {LogMsg(u, "[ERROR]", utask[u].id)}
  /\ upc' = [upc EXCEPT ![u] = "record"]
  /\ UNCHANGED <<prices, stopFlag, priceHistory, counterVars, queueVars, uidx,
                 ownerVars, taskHist, runHist>>
  /\ UNCHANGED otherThanMgr

\* the PriceRecord recordPriceChange builds from the task
PriceRecordOf(task) ==
  [task |-> task.id, merchantName |-> task.merchantName, productId |-> task.productId,
   originalPrice |-> task.basePrice, adjustedPrice |-> task.adjustedPrice,
   status |-> IF task.success THEN "SUCCESS" ELSE "FAILED"]

\* mutant: the record is not pushed
recordPriceChangeDropped(u) ==
  /\ upc[u] = "record"
  /\ historyMutex = "free"
  /\ priceHistory' = priceHistory
  /\ upc' = [upc EXCEPT ![u] = "total"]
  /\ UNCHANGED <<prices, stopFlag, counterVars, queueVars, utask, uidx, ownerVars,
                 unitLog, taskHist, runHist>>
  /\ UNCHANGED otherThanMgr

\* recordPriceChange: historyMutex is taken, priceHistory.push_back(record),
\* historyMutex is released
recordPriceChange(u) ==
  /\ upc[u] = "record"
  /\ historyMutex = "free"
  /\ priceHistory' = Append(priceHistory, PriceRecordOf(utask[u]))
  /\ upc' = [upc EXCEPT ![u] = "total"]
  /\ UNCHANGED <<prices, stopFlag, counterVars, queueVars, utask, uidx, ownerVars,
                 unitLog, taskHist, runHist>>
  /\ UNCHANGED otherThanMgr

\* mutant: totalTasks is not incremented
countTotalSkipped(u) ==
  /\ upc[u] = "total"
  /\ totalTasks' = totalTasks
  /\ upc' = [upc EXCEPT ![u] = "count"]
  /\ UNCHANGED <<prices, stopFlag, priceHistory, successTasks, failedTasks, queueVars,
                 utask, uidx, ownerVars, unitLog, taskHist, runHist>>
  /\ UNCHANGED otherThanMgr

\* mutant: totalTasks = totalTasks + 1 with a plain int, the store of one
\* unit overwriting the increment of another that is at the same statement
countTotalPlainInt(u) ==
  /\ upc[u] = "total"
  /\ totalTasks' = IF \E v \in Units \ {u} : upc[v] = "total"
                     THEN totalTasks
                     ELSE totalTasks + 1
  /\ upc' = [upc EXCEPT ![u] = "count"]
  /\ UNCHANGED <<prices, stopFlag, priceHistory, successTasks, failedTasks, queueVars,
                 utask, uidx, ownerVars, unitLog, taskHist, runHist>>
  /\ UNCHANGED otherThanMgr

\* totalTasks++
countTotal(u) ==
  /\ upc[u] = "total"
  /\ totalTasks' = totalTasks + 1
  /\ upc' = [upc EXCEPT ![u] = "count"]
  /\ UNCHANGED <<prices, stopFlag, priceHistory, successTasks, failedTasks, queueVars,
                 utask, uidx, ownerVars, unitLog, taskHist, runHist>>
  /\ UNCHANGED otherThanMgr

\* successTasks++ or failedTasks++, then the end of the loop body: the
\* merchant thread sleeps and goes to its next product, the worker to its
\* loop condition
countResult(u) ==
  /\ upc[u] = "count"
  /\ IF utask[u].success
       THEN successTasks' = successTasks + 1 /\ UNCHANGED failedTasks
       ELSE failedTasks' = failedTasks + 1 /\ UNCHANGED successTasks
  /\ utask' = [utask EXCEPT ![u] = NoTask]
  /\ uidx' = [uidx EXCEPT ![u] = IF u \in MerchantIds THEN uidx[u] + 1 ELSE uidx[u]]
  /\ upc' = [upc EXCEPT ![u] = "loop"]
  /\ UNCHANGED <<prices, stopFlag, priceHistory, totalTasks, queueVars, ownerVars,
                 unitLog, taskHist, runHist>>
  /\ UNCHANGED otherThanMgr

(***************************************************************************)
(* The read-only operations of the owner thread                            *)
(***************************************************************************)
ObserversConstructed ==
  /\ historyMutex = "free"
  /\ exportFile = <<>>
  /\ nobs = 0
  /\ openFailed = FALSE

ownerOnly ==
  <<prices, stopFlag, priceHistory, counterVars, queueVars, unitVars, mode,
    merchantThreads, unitLog, taskHist, runHist>>

\* mutant: the lock is taken before the file is tested, and kept when the
\* call returns on the error
exportPriceTrendLockFirst ==
  /\ mpc = "ready"
  /\ mode # "none"
  /\ nobs < MaxObs
  /\ nobs' = nobs + 1
  /\ historyMutex = "free"
  /\ \/ mpc' = "ready" /\ openFailed' = TRUE /\ historyMutex' = Owner
                       /\ UNCHANGED exportFile
     \/ mpc' = "exportlock" /\ openFailed' = FALSE /\ exportFile' = <<>>
                            /\ UNCHANGED historyMutex
  /\ UNCHANGED ownerOnly
  /\ UNCHANGED <<tableAux, logVars, lockVars, callVars>>

\* exportPriceTrend: std::ofstream file(filename); when it is not open the
\* error is printed and the call returns, else the header is written
exportPriceTrend ==
  /\ mpc = "ready"
  /\ mode # "none"
  /\ nobs < MaxObs
  /\ nobs' = nobs + 1
  /\ \/ mpc' = "ready" /\ openFailed' = TRUE /\ UNCHANGED exportFile
     \/ mpc' = "exportlock" /\ openFailed' = FALSE /\ exportFile' = <<>>
  /\ UNCHANGED <<historyMutex, ownerOnly>>
  /\ UNCHANGED <<tableAux, logVars, lockVars, callVars>>

\* mutant: the row loop is entered without the lock
exportLockOmitted ==
  /\ mpc = "exportlock"
  /\ historyMutex' = historyMutex
  /\ mpc' = "exportrows"
  /\ UNCHANGED <<exportFile, nobs, openFailed, ownerOnly>>
  /\ UNCHANGED <<tableAux, logVars, lockVars, callVars>>

\* exportPriceTrend: std::lock_guard lock(historyMutex)
exportLock ==
  /\ mpc = "exportlock"
  /\ historyMutex = "free"
  /\ historyMutex' = Owner
  /\ mpc' = "exportrows"
  /\ UNCHANGED <<exportFile, nobs, openFailed, ownerOnly>>
  /\ UNCHANGED <<tableAux, logVars, lockVars, callVars>>

\* mutant: a row that is written is taken out of the ledger
exportRowMoving ==
  /\ mpc = "exportrows"
  /\ IF priceHistory # <<>>
       THEN /\ exportFile' = Append(exportFile, Head(priceHistory))
            /\ priceHistory' = Tail(priceHistory)
            /\ UNCHANGED <<historyMutex, mpc>>
       ELSE /\ historyMutex' = "free"
            /\ mpc' = "ready"
            /\ UNCHANGED <<exportFile, priceHistory>>
  /\ UNCHANGED <<nobs, openFailed, prices, stopFlag, counterVars, queueVars, unitVars, mode,
                 merchantThreads, unitLog, taskHist, runHist>>
  /\ UNCHANGED <<tableAux, logVars, lockVars, callVars>>

\* exportPriceTrend: the loop over priceHistory writes the next row; after
\* the last row file.close(), the lock is released and the call returns
exportRow ==
  /\ mpc = "exportrows"
  /\ IF Len(exportFile) < Len(priceHistory)
       THEN /\ exportFile' = Append(exportFile, priceHistory[Len(exportFile) + 1])
            /\ UNCHANGED <<historyMutex, mpc>>
       ELSE /\ historyMutex' = "free"
            /\ mpc' = "ready"
            /\ UNCHANGED exportFile
  /\ UNCHANGED <<nobs, openFailed, ownerOnly>>
  /\ UNCHANGED <<tableAux, logVars, lockVars, callVars>>

\* printStatistics: the three counters are loaded and printed
printStatistics ==
  /\ mpc = "ready"
  /\ mode # "none"
  /\ nobs < MaxObs
  /\ nobs' = nobs + 1
  /\ mpc' = "printsize"
  /\ UNCHANGED <<historyMutex, exportFile, openFailed, ownerOnly>>
  /\ UNCHANGED <<tableAux, logVars, lockVars, callVars>>

\* printStatistics: priceTable.size() is printed
printSize ==
  /\ mpc = "printsize"
  /\ mpc' = "printprices"
  /\ UNCHANGED <<obsVars, ownerOnly>>
  /\ UNCHANGED <<tableAux, logVars, lockVars, callVars>>

\* printStatistics: priceTable.getAllPrices(), the price range is printed
\* and the call returns
printPrices ==
  /\ mpc = "printprices"
  /\ mpc' = "ready"
  /\ UNCHANGED <<obsVars, ownerOnly>>
  /\ UNCHANGED <<tableAux, logVars, lockVars, callVars>>

(***************************************************************************)
(* The lock scopes of the operations.  Every operation is the sequence of  *)
(* its lock events: <<"acq", lock, mode>>, <<"rel", lock, "">>,             *)
(* <<"cvwait", lock, "">> (a condition variable wait releases the mutex;   *)
(* the "acq" that follows takes it again) and <<"in", place, "">> for a    *)
(* stretch of code between lock events.  SpecLocks runs the threads through *)
(* these sequences; what the operations compute is left to the other       *)
(* specifications.                                                         *)
(***************************************************************************)
CoreLocks == {"rwMutex", "historyMutex", "queueMutex", "logMutex"}

Acq(l, m) == <<"acq", l, m>>

Rel(l) == <<"rel", l, "">>

In(place) == <<"in", place, "">>

\* ThreadSafeLogger::log: lock_guard around the push
logLocks == <<Acq("logMutex", "unique"), In("logQueue.push"), Rel("logMutex")>>

\* mutant: one exclusive lock of the table around getPrice, the strategy and
\* setPrice
executePricingTaskLocksAroundStrategy ==
  LET body == <<Acq("rwMutex", "unique"), In("getPrice"), In("calculatePrice"),
                In("setPrice"), Rel("rwMutex")>>
      get == <<Acq("rwMutex", "shared"), In("getPrice"), Rel("rwMutex")>>
  IN  { body \o logLocks,
        get \o logLocks,
        body \o <<In("catch")>> \o logLocks }

\* the ways through executePricingTask: getPrice under the shared lock, the
\* strategy, setPrice under the exclusive lock, the log; an exception leads
\* to the log of the catch block
executePricingTaskLocks ==
  LET get == <<Acq("rwMutex", "shared"), In("getPrice"), Rel("rwMutex")>>
      set == <<Acq("rwMutex", "unique"), In("setPrice"), Rel("rwMutex")>>
      calc == <<In("calculatePrice")>>
  IN  { get \o calc \o set \o logLocks,
        get \o logLocks,
        get \o calc \o logLocks,
        get \o calc \o set \o <<In("catch")>> \o logLocks }

\* mutant: the record is logged while historyMutex is held
recordPriceChangeLocksLogging ==
  <<Acq("historyMutex", "unique"), In("push_back")>> \o logLocks
    \o <<Rel("historyMutex")>>

\* recordPriceChange: lock_guard for the whole body
recordPriceChangeLocks ==
  <<Acq("historyMutex", "unique"), In("push_back"), Rel("historyMutex")>>

\* exportPriceTrend: the file is opened first; the rows are written under
\* historyMutex; with a file that cannot be opened no lock is taken
exportPriceTrendLocks ==
  { <<In("open"), Acq("historyMutex", "unique"), In("rows"), Rel("historyMutex")>>,
    <<In("open")>> }

\* printStatistics: the counters, priceTable.size(), priceTable.getAllPrices()
printStatisticsLocks ==
  <<In("counters"),
    Acq("rwMutex", "shared"), In("size"), Rel("rwMutex"),
    Acq("rwMutex", "shared"), In("getAllPrices"), Rel("rwMutex")>>

\* addTask: lock_guard around the push, notify_one after it
addTaskLocks ==
  <<Acq("queueMutex", "unique"), In("taskQueue.push"), Rel("queueMutex"),
    In("notify_one")>>

\* the block of the worker loop: unique_lock, the wait (the predicate may be
\* false any number of times), break / pop / continue, end of the block
workerTakeLocks ==
  { <<Acq("queueMutex", "unique"), In("pop"), Rel("queueMutex")>>,
    <<Acq("queueMutex", "unique"), <<"cvwait", "queueMutex", "">>,
      Acq("queueMutex", "unique"), In("pop"), Rel("queueMutex")>> }

\* one round of writerThreadFunc: unique_lock, the wait, pop, unlock, write,
\* lock again, end of the scope
writerLocks ==
  LET body == <<In("pop"), Rel("logMutex"), In("write"),
                Acq("logMutex", "unique"), Rel("logMutex")>>
  IN  { <<Acq("logMutex", "unique")>> \o body,
        <<Acq("logMutex", "unique"), <<"cvwait", "logMutex", "">>,
          Acq("logMutex", "unique")>> \o body,
        <<Acq("logMutex", "unique"), Rel("logMutex")>> }

\* stopAll: the flag and the notification, no lock
stopAllLocks == <<In("stopFlag"), In("notify_all")>>

\* the threads of SpecLocks: a merchant thread, a worker, the owner, the writer
LockThreads == {"A", WorkerName(0), Owner, Writer}

\* the operations a thread runs, each with its ways through
LockOps(t) ==
  IF t = Writer THEN writerLocks
  ELSE IF t = Owner
    THEN {logLocks, addTaskLocks, printStatisticsLocks, stopAllLocks}
           \cup exportPriceTrendLocks
  ELSE {logLocks, recordPriceChangeLocks} \cup executePricingTaskLocks
         \cup (IF t \in WorkerIds THEN workerTakeLocks ELSE {})

LocksFree ==
  /\ held = [t \in LockThreads |-> {}]
  /\ rshared = {}
  /\ lscript = [t \in LockThreads |-> <<>>]

\* the lock can be taken by t in this mode
Available(l, m) ==
  IF l = "rwMutex" /\ m = "shared"
    THEN \A u \in LockThreads : l \in held[u] => u \in rshared
    ELSE \A u \in LockThreads : l \notin held[u]

\* t is in front of a lock it cannot take now
Blocked(t) ==
  /\ lscript[t] # <<>>
  /\ Head(lscript[t])[1] = "acq"
  /\ ~Available(Head(lscript[t])[2], Head(lscript[t])[3])

\* t is inside the stretch of code named place
Inside(t, place) == lscript[t] # <<>> /\ Head(lscript[t]) = In(place)

\* the thread enters an operation
LCall(t, script) ==
  /\ lscript[t] = <<>>
  /\ lscript' = [lscript EXCEPT ![t] = script]
  /\ UNCHANGED <<held, rshared>>
  /\ UNCHANGED <<tableVars, logVars, mgrVars, obsVars, callVars>>

\* the constructor of a lock object, or lock.lock()
LAcquire(t) ==
  /\ lscript[t] # <<>>
  /\ Head(lscript[t])[1] = "acq"
  /\ Available(Head(lscript[t])[2], Head(lscript[t])[3])
  /\ held' = [held EXCEPT ![t] = held[t] \cup {Head(lscript[t])[2]}]
  /\ rshared' = IF Head(lscript[t])[3] = "shared" THEN rshared \cup {t} ELSE rshared
  /\ lscript' = [lscript EXCEPT ![t] = Tail(lscript[t])]
  /\ UNCHANGED <<tableVars, logVars, mgrVars, obsVars, callVars>>

\* the destructor of a lock object, lock.unlock(), or the release of a wait
LRelease(t) ==
  /\ lscript[t] # <<>>
  /\ Head(lscript[t])[1] \in {"rel", "cvwait"}
  /\ held' = [held EXCEPT ![t] = held[t] \ {Head(lscript[t])[2]}]
  /\ rshared' = IF Head(lscript[t])[2] = "rwMutex" THEN rshared \ {t} ELSE rshared
  /\ lscript' = [lscript EXCEPT ![t] = Tail(lscript[t])]
  /\ UNCHANGED <<tableVars, logVars, mgrVars, obsVars, callVars>>

\* the code between two lock events
LInside(t) ==
  /\ lscript[t] # <<>>
  /\ Head(lscript[t])[1] = "in"
  /\ lscript' = [lscript EXCEPT ![t] = Tail(lscript[t])]
  /\ UNCHANGED <<held, rshared>>
  /\ UNCHANGED <<tableVars, logVars, mgrVars, obsVars, callVars>>

(***************************************************************************)
(* The ThreadManager with the logger it owns.  The threads of the manager  *)
(* are the callers of logger->log: a message a thread has handed to        *)
(* logger->log (it is in unitLog) is pushed and notified by the two steps  *)
(* of log() before the thread goes on.  The logger is a member of the      *)
(* manager, so its destructor runs when the body of ~ThreadManager has     *)
(* ended.                                                                  *)
(***************************************************************************)
\* the number of workers of the pool that is followed to its destruction
PoolSize == 1

\* the threads that call logger->log
LogCallers == Units \cup {"main"}

\* the messages a thread has handed to logger->log that are not yet pushed
Pending(t) == {m \in unitLog : m.who = t} \ logged

\* the message of the earliest of those calls: "Stopped by signal" (line
\* 169) comes before the thread's last line (193)
FirstPending(t) ==
  IF \E m \in Pending(t) : m.what = "Stopped by signal"
    THEN CHOOSE m \in Pending(t) : m.what = "Stopped by signal"
    ELSE CHOOSE m \in Pending(t) : TRUE

\* every logger->log call of the thread has returned
LogReturned(t) == Pending(t) = {} /\ logCall[t] = <<>>

\* logger->log(message) called by a thread of the manager: lock_guard,
\* logQueue.push(message), unlock
managerLogPush(t) ==
  /\ logCall[t] = <<>>
  /\ Pending(t) # {}
  /\ logMutex = "free"
  /\ logQueue' = Append(logQueue, FirstPending(t))
  /\ logCall' = [logCall EXCEPT ![t] = <<FirstPending(t)>>]
  /\ logged' = logged \cup {FirstPending(t)}
  /\ UNCHANGED <<logMutex, logStopFlag, cvWaiting, wpc, wmsg, fileOpen, fileLines,
                 ppc, pmsg, nmsg, opc, preStop>>
  /\ UNCHANGED <<tableVars, mgrVars, lockVars, obsVars>>

\* logger->log(message): cv.notify_one(), return
managerLogNotify(t) ==
  /\ logCall[t] # <<>>
  /\ cvWaiting' = FALSE
  /\ logCall' = [logCall EXCEPT ![t] = <<>>]
  /\ UNCHANGED <<logQueue, logMutex, logStopFlag, wpc, wmsg, fileOpen, fileLines,
                 ppc, pmsg, nmsg, opc, preStop, logged>>
  /\ UNCHANGED <<tableVars, mgrVars, lockVars, obsVars>>

\* a step of a pool worker whose logger->log calls have returned
workerStep(u) ==
  /\ LogReturned(u)
  /\ \/ unitStart(u) \/ workerLoop(u) \/ workerLock(u) \/ workerPred(u)
     \/ workerWait(u) \/ workerSpurious(u) \/ workerWake(u) \/ workerTake(u)
     \/ executeGetPrice(u) \/ executeCalculate(u) \/ executeSetPrice(u)
     \/ executeLog(u) \/ executeCatch(u)
     \/ recordPriceChange(u) \/ countTotal(u) \/ countResult(u)

\* the owner calls startWorkers(PoolSize, strategy) when the constructor's
\* log call has returned
ownerStartWorkers == LogReturned("main") /\ startWorkers(PoolSize)

\* mutant: the destructor body ends without joining the threads
ownerDtorWaitAllOmitted ==
  /\ mpc = "dtorjoin"
  /\ merchantThreads' = {}
  /\ mpc' = "destroyed"
  /\ UNCHANGED <<prices, stopFlag, priceHistory, counterVars, queueVars, unitVars,
                 mode, unitLog, taskHist, runHist>>
  /\ UNCHANGED otherThanMgr

\* ~ThreadManager, waitAll(): thread.join() returns when the thread function
\* has returned, its last logger->log call included
ownerDtorWaitAll ==
  /\ \A u \in merchantThreads : LogReturned(u)
  /\ dtorWaitAll

\* the members are destroyed after the destructor body, the logger among
\* them (std::unique_ptr<ThreadSafeLogger>): ~ThreadSafeLogger, stop():
\* stopFlag = true
memberLoggerStop == mpc = "destroyed" /\ StopSetFlag

(***************************************************************************)
(* Specifications                                                          *)
(***************************************************************************)
NextTable ==
  \E t \in Clients :
    \/ \E c \in Calls : TCall(t, c)
    \/ TLockShared(t)
    \/ TLockUnique(t)
    \/ TGetPrice(t)
    \/ TSize(t)
    \/ TCopyEntry(t)
    \/ TCheck(t)
    \/ TStore(t)
    \/ TUnlock(t)

\* the table on its own: the logger stays as constructed
InitTableSpec == InitTable /\ LoggerConstructed /\ fileOpen /\ ManagerConstructed /\ LocksFree /\ ObserversConstructed

SpecTable == InitTableSpec /\ [][NextTable]_vars

\* the lowest-price race: every thread calls updatePriceIfLower
NextMin ==
  \E t \in MinClients :
    \/ \E c \in MinCalls : TCall(t, c)
    \/ TLockUnique(t)
    \/ TCheck(t)
    \/ TStore(t)
    \/ TUnlock(t)

InitMinSpec == InitMin /\ LoggerConstructed /\ fileOpen /\ ManagerConstructed /\ LocksFree /\ ObserversConstructed

SpecMin == InitMinSpec /\ [][NextMin]_vars

NextLog ==
  \/ \E p \in Producers : LogPush(p)
  \/ \E p \in Producers : LogNotify(p)
  \/ StopSetFlag
  \/ StopNotifyAll
  \/ DtorJoin
  \/ DtorClose
  \/ WLoopFlag
  \/ WLoopQueue
  \/ WLock
  \/ WPred
  \/ WWait
  \/ WSpurious
  \/ WWake
  \/ WInner
  \/ WWrite

\* the logger on its own: the table stays empty
InitLog == InitTable /\ LoggerConstructed /\ ManagerConstructed /\ LocksFree /\ ObserversConstructed

SpecLog == InitLog /\ [][NextLog]_vars

\* a step of the writer thread, other than a spurious wakeup
WriterStep ==
  WLoopFlag \/ WLoopQueue \/ WLock \/ WPred \/ WWait \/ WWake \/ WInner \/ WWrite

\* a step that finishes a call in progress: log() after its push, stop()
\* after its store, the destructor after stop()
OwnerStep ==
  (\E p \in Producers : LogNotify(p)) \/ StopNotifyAll \/ DtorJoin \/ DtorClose

\* the logger under a fair scheduler: a thread that can take a step takes
\* one; nobody is obliged to call log() or stop(), and no spurious wakeup
\* is promised
SpecLogFair == SpecLog /\ WF_vars(WriterStep) /\ WF_vars(OwnerStep)

\* the ThreadManager with its units; the logger file is open
Next ==
  \/ startPricing
  \/ \E n \in 1 .. NumWorkers : startWorkers(n)
  \/ \E task \in PoolTasks : addTask(task)
  \/ addTaskNotify
  \/ stopAll
  \/ stopAllNotify
  \/ waitAll
  \/ \E u \in Units : unitStart(u)
  \/ \E u \in Units : merchantPricingThread(u)
  \/ \E u \in Units : workerLoop(u)
  \/ \E u \in Units : workerLock(u)
  \/ \E u \in Units : workerPred(u)
  \/ \E u \in Units : workerWait(u)
  \/ \E u \in Units : workerSpurious(u)
  \/ \E u \in Units : workerWake(u)
  \/ \E u \in Units : workerTake(u)
  \/ \E u \in Units : executeGetPrice(u)
  \/ \E u \in Units : executeCalculate(u)
  \/ \E u \in Units : executeSetPrice(u)
  \/ \E u \in Units : executeLog(u)
  \/ \E u \in Units : executeCatch(u)
  \/ \E u \in Units : recordPriceChange(u)
  \/ \E u \in Units : countTotal(u)
  \/ \E u \in Units : countResult(u)

Init == InitTable /\ LoggerConstructed /\ fileOpen /\ ManagerConstructed /\ LocksFree /\ ObserversConstructed

Spec == Init /\ [][Next]_vars

\* the threads walking through the lock scopes of their operations
NextLocks ==
  \/ \E t \in LockThreads : \E script \in LockOps(t) : LCall(t, script)
  \/ \E t \in LockThreads : LAcquire(t)
  \/ \E t \in LockThreads : LRelease(t)
  \/ \E t \in LockThreads : LInside(t)

SpecLocks == Init /\ [][NextLocks]_vars

\* fixed mode, with the owner calling the read-only operations while the
\* merchant threads run
NextObs ==
  \/ startPricing
  \/ exportPriceTrend
  \/ exportLock
  \/ exportRow
  \/ printStatistics
  \/ printSize
  \/ printPrices
  \/ \E u \in Units : unitStart(u)
  \/ \E u \in Units : merchantPricingThread(u)
  \/ \E u \in Units : executeGetPrice(u)
  \/ \E u \in Units : executeCalculate(u)
  \/ \E u \in Units : executeSetPrice(u)
  \/ \E u \in Units : executeLog(u)
  \/ \E u \in Units : executeCatch(u)
  \/ \E u \in Units : recordPriceChange(u)
  \/ \E u \in Units : countTotal(u)
  \/ \E u \in Units : countResult(u)

SpecObs == Init /\ [][NextObs]_vars

\* pool mode with the destructor
NextPool ==
  \/ \E n \in 1 .. NumWorkers : startWorkers(n)
  \/ \E task \in PoolTasks : addTask(task)
  \/ addTaskNotify
  \/ stopAll
  \/ stopAllNotify
  \/ waitAll
  \/ dtorStopAll
  \/ dtorNotify
  \/ dtorWaitAll
  \/ \E u \in Units : unitStart(u)
  \/ \E u \in Units : workerLoop(u)
  \/ \E u \in Units : workerLock(u)
  \/ \E u \in Units : workerPred(u)
  \/ \E u \in Units : workerWait(u)
  \/ \E u \in Units : workerSpurious(u)
  \/ \E u \in Units : workerWake(u)
  \/ \E u \in Units : workerTake(u)
  \/ \E u \in Units : executeGetPrice(u)
  \/ \E u \in Units : executeCalculate(u)
  \/ \E u \in Units : executeSetPrice(u)
  \/ \E u \in Units : executeLog(u)
  \/ \E u \in Units : executeCatch(u)
  \/ \E u \in Units : recordPriceChange(u)
  \/ \E u \in Units : countTotal(u)
  \/ \E u \in Units : countResult(u)

\* a step of the thread u, other than a spurious wakeup
UnitStep(u) ==
  \/ unitStart(u) \/ merchantPricingThread(u)
  \/ workerLoop(u) \/ workerLock(u) \/ workerPred(u) \/ workerWait(u)
  \/ workerWake(u) \/ workerTake(u)
  \/ executeGetPrice(u) \/ executeCalculate(u) \/ executeSetPrice(u)
  \/ executeLog(u) \/ executeCatch(u)
  \/ recordPriceChange(u) \/ countTotal(u) \/ countResult(u)

\* a step that finishes a call of the owner thread that is in progress
CallerStep == addTaskNotify \/ stopAllNotify \/ dtorNotify \/ dtorWaitAll

\* pool mode under a fair scheduler: a thread that can take a step takes
\* one; the owner is not obliged to make any call, and no spurious wakeup
\* is promised
SpecPoolFair ==
  /\ Init
  /\ [][NextPool]_vars
  /\ \A u \in Units : WF_vars(UnitStep(u))
  /\ WF_vars(CallerStep)

\* pool mode with no stop request: the owner starts the workers and adds
\* tasks, the workers take and execute them
NextQueue ==
  \/ \E n \in 1 .. NumWorkers : startWorkers(n)
  \/ \E task \in PoolTasks : addTask(task)
  \/ addTaskNotify
  \/ \E u \in Units : unitStart(u)
  \/ \E u \in Units : workerLoop(u)
  \/ \E u \in Units : workerLock(u)
  \/ \E u \in Units : workerPred(u)
  \/ \E u \in Units : workerWait(u)
  \/ \E u \in Units : workerSpurious(u)
  \/ \E u \in Units : workerWake(u)
  \/ \E u \in Units : workerTake(u)
  \/ \E u \in Units : executeGetPrice(u)
  \/ \E u \in Units : executeCalculate(u)
  \/ \E u \in Units : executeSetPrice(u)
  \/ \E u \in Units : executeLog(u)
  \/ \E u \in Units : executeCatch(u)
  \/ \E u \in Units : recordPriceChange(u)
  \/ \E u \in Units : countTotal(u)
  \/ \E u \in Units : countResult(u)

\* the same under a fair scheduler: a worker that can take a step takes one
\* and addTask, once it has pushed, goes on to its notify_one; the owner is
\* not obliged to add a task and no spurious wakeup is promised
SpecQueueFair ==
  /\ Init
  /\ [][NextQueue]_vars
  /\ \A u \in WorkerIds : WF_vars(UnitStep(u))
  /\ WF_vars(addTaskNotify)

\* fixed mode as main runs it: startPricing, the merchant threads, waitAll;
\* no stop request
NextFixed ==
  \/ startPricing
  \/ waitAll
  \/ \E u \in Units : unitStart(u)
  \/ \E u \in Units : merchantPricingThread(u)
  \/ \E u \in Units : executeGetPrice(u)
  \/ \E u \in Units : executeCalculate(u)
  \/ \E u \in Units : executeSetPrice(u)
  \/ \E u \in Units : executeLog(u)
  \/ \E u \in Units : executeCatch(u)
  \/ \E u \in Units : recordPriceChange(u)
  \/ \E u \in Units : countTotal(u)
  \/ \E u \in Units : countResult(u)

\* the same under a fair scheduler: a merchant thread that can take a step
\* takes one, and the owner calls waitAll after startPricing, as main does
SpecFixedFair ==
  /\ Init
  /\ [][NextFixed]_vars
  /\ \A u \in MerchantIds : WF_vars(UnitStep(u))
  /\ WF_vars(waitAll)

\* fixed mode with a stop request and a further call of startPricing
NextRestart ==
  \/ startPricing
  \/ startPricingNoMerchants
  \/ stopAll
  \/ stopAllNotify
  \/ waitAll
  \/ \E u \in Units : unitStart(u)
  \/ \E u \in Units : merchantPricingThread(u)
  \/ \E u \in Units : executeGetPrice(u)
  \/ \E u \in Units : executeCalculate(u)
  \/ \E u \in Units : executeSetPrice(u)
  \/ \E u \in Units : executeLog(u)
  \/ \E u \in Units : executeCatch(u)
  \/ \E u \in Units : recordPriceChange(u)
  \/ \E u \in Units : countTotal(u)
  \/ \E u \in Units : countResult(u)

SpecRestart == Init /\ [][NextRestart]_vars

\* the life of a ThreadManager in pool mode with its logger: construction,
\* startWorkers, addTask, the worker, the writer thread, destruction
NextShutdown ==
  \/ \E t \in LogCallers : managerLogPush(t)
  \/ \E t \in LogCallers : managerLogNotify(t)
  \/ ownerStartWorkers
  \/ \E task \in PoolTasks : addTask(task)
  \/ addTaskNotify
  \/ \E u \in WorkerIds : workerStep(u)
  \/ dtorStopAll
  \/ dtorNotify
  \/ ownerDtorWaitAll
  \/ memberLoggerStop
  \/ StopNotifyAll
  \/ DtorJoin
  \/ DtorClose
  \/ WLoopFlag
  \/ WLoopQueue
  \/ WLock
  \/ WPred
  \/ WWait
  \/ WSpurious
  \/ WWake
  \/ WInner
  \/ WWrite

SpecShutdown == InitLog /\ [][NextShutdown]_vars

\* a step that continues a read-only operation in progress
ObserverStep == exportLock \/ exportRow \/ printSize \/ printPrices

\* fixed mode with the read-only operations under a fair scheduler: the
\* owner finishes the operation it is in, and a unit in front of a
\* historyMutex that is free takes it
SpecObsFair ==
  /\ SpecObs
  /\ WF_vars(ObserverStep)
  /\ \A u \in MerchantIds : WF_vars(recordPriceChange(u))

(***************************************************************************)
(* Properties of the price table                                           *)
(***************************************************************************)
AllClients == DOMAIN cpc

MinOf(S) == CHOOSE x \in S : \A y \in S : x <= y

\* the call of t has its return value and still holds its lock
Returning(t) == cpc[t] = "unlock"

\* C2: for every key the stored value is the value written by the last
\* writer in the order of the exclusive-lock acquisitions (the key is absent
\* when nobody wrote it): no store is lost; and what getPrice / getAllPrices
\* return is what the table holds (0.0 for an absent key), so never a value
\* that no call wrote.
C2_LastWriterWins ==
  /\ \A k \in Products :
       IF lastW[k] = None
       THEN k \notin DOMAIN prices
       ELSE k \in DOMAIN prices /\ prices[k] = lastW[k]
  /\ \A t \in AllClients :
       /\ (cop[t].op = "get" /\ Returning(t)) =>
            cret[t] = (IF cop[t].id \in DOMAIN prices THEN prices[cop[t].id] ELSE 0)
       /\ (cop[t].op = "getAll" /\ Returning(t)) => cret[t] = prices

\* C2 witness: an updatePriceIfLower has just overwritten the value of P1
\* that an earlier call stored, while a setPrice on P1 waits for the lock
C2_Witness ==
  \E t, u \in AllClients :
    /\ cop[t].op = "upd" /\ cop[t].id = "P1" /\ Returning(t) /\ cret[t] = TRUE
    /\ "P1" \in DOMAIN cpre[t] /\ prices["P1"] = cop[t].val
    /\ cop[u].op = "set" /\ cop[u].id = "P1" /\ cpc[u] = "lock"
    /\ cop[u].val # cop[t].val

\* C3: updatePriceIfLower(id, v) returns true and stores v exactly when id
\* was absent or v < the value current when it took the lock, otherwise it
\* returns false and the table is as it was; from taking the lock to the
\* return no other thread's write reaches the table.
C3_UpdateIfLower ==
  \A t \in AllClients :
    cop[t].op = "upd" =>
      LET id == cop[t].id
          v == cop[t].val
          lower == id \notin DOMAIN cpre[t] \/ v < cpre[t][id]
      IN  /\ cpc[t] \in {"check", "store"} => prices = cpre[t]
          /\ cpc[t] = "store" => lower
          /\ Returning(t) =>
               /\ cret[t] = lower
               /\ prices = IF lower THEN [k \in DOMAIN cpre[t] \cup {id} |->
                                            IF k = id THEN v ELSE cpre[t][k]]
                           ELSE cpre[t]

\* C3 witness: a call is returning false against an equal stored value while
\* another thread waits for the lock, the other key being present
C3_Witness ==
  \E t, u \in AllClients :
    /\ cop[t].op = "upd" /\ Returning(t) /\ cret[t] = FALSE
    /\ cop[t].id \in DOMAIN cpre[t] /\ cpre[t][cop[t].id] = cop[t].val
    /\ DOMAIN prices = Products
    /\ cop[u].op \in {"set", "upd"} /\ cpc[u] = "lock"

\* the case of C4: so far only updatePriceIfLower calls were made on k, with
\* pairwise distinct values, and each of them has its return value
OnlyDistinctUpdates(k) ==
  /\ ~mixed[k]
  /\ updVals[k] # {}
  /\ \A t \in AllClients : (cop[t].op = "upd" /\ cop[t].id = k) => Returning(t)

\* C4: from an absent key, concurrent updatePriceIfLower calls with distinct
\* values leave the minimum stored, and the call carrying the minimum
\* returned true, whatever the order of arrival.
C4_MinimumWins ==
  \A k \in Products :
    OnlyDistinctUpdates(k) =>
      /\ k \in DOMAIN prices
      /\ prices[k] = MinOf(updVals[k])
      /\ MinOf(updVals[k]) \in updTrue[k]

\* C4 witness: the calls with 2, 1 and 3 on P1 took the lock in this order
\* (2 and 1 returned true, 3 is returning false)
C4_Witness ==
  /\ OnlyDistinctUpdates("P1")
  /\ updVals["P1"] = {1, 2, 3}
  /\ updTrue["P1"] = {1, 2}
  /\ ncalls = 3
  /\ \E t \in AllClients : cop[t].id = "P1" /\ cop[t].val = 3 /\ Returning(t)
                            /\ cret[t] = FALSE

\* C5: the map getAllPrices returns is the whole table as it was at one
\* instant between the call and the return.
C5_SnapshotConsistent ==
  \A t \in AllClients :
    (cop[t].op = "getAll" /\ Returning(t)) => cret[t] \in cseen[t]

\* C5 witness: a snapshot of both keys is returned after three stores, to
\* both keys, happened between its call and its return
C5_Witness ==
  \E t \in AllClients :
    /\ cop[t].op = "getAll" /\ Returning(t)
    /\ DOMAIN cret[t] = Products
    /\ Cardinality(cseen[t]) = 4
    /\ \E a, b \in cseen[t] : DOMAIN a = Products /\ DOMAIN b = Products
                               /\ a["P1"] # b["P1"]

\* the threads inside getPrice with the shared lock taken
GetPriceCallers ==
  {t \in AllClients : cop[t].op = "get" /\ cpc[t] \in {"read", "unlock"}}

\* C23: getPrice always returns, with the stored price when the key is
\* present and 0 when it is absent, and it inserts nothing: the lookup step
\* leaves the map as it was, and from the moment a getPrice call has its
\* lock to its return no step of any thread changes the map, so size() and
\* getAllPrices() are the same before and after the call.
C23_GetPriceReadsOnly ==
  /\ [][\A t \in AllClients :
          (cpc[t] = "read" /\ cpc'[t] # "read") =>
            /\ cpc'[t] = "unlock"
            /\ cret'[t] = IF cop[t].id \in DOMAIN prices THEN prices[cop[t].id] ELSE 0
            /\ cop[t].id \notin DOMAIN prices => cop[t].id \notin DOMAIN prices'
            /\ prices' = prices]_vars
  /\ [][GetPriceCallers # {} =>
          /\ size(prices') = size(prices)
          /\ getAllPrices(prices') = getAllPrices(prices)]_vars
  /\ [](GetPriceCallers # {} => rwMutex.w = None)

\* one thread returns 0 for an absent key and another the stored price of a
\* present key; the absent key is still absent
C23_Witness ==
  \E t, u \in AllClients :
    /\ cop[t].op = "get" /\ cpc[t] = "unlock"
    /\ cop[t].id \notin DOMAIN prices
    /\ cret[t] = 0
    /\ cop[u].op = "get" /\ cpc[u] = "unlock"
    /\ cop[u].id \in DOMAIN prices
    /\ cret[u] = prices[cop[u].id]
    /\ size(prices) = 1

\* the threads inside setPrice / updatePriceIfLower, their lock taken
WritersInside ==
  {t \in AllClients : IsWriteOp(cop[t].op) /\ cpc[t] \in {"check", "store", "unlock"}}

\* the threads inside getPrice / getAllPrices / size, their lock taken
ReadersInside ==
  {t \in AllClients :
     cop[t].op \in {"get", "getAll", "size"} /\ cpc[t] \in {"read", "copy", "size", "unlock"}}

\* C31: at most one thread is inside a write operation of the price table,
\* and then no thread is inside a read operation; the map changes only on a
\* step of the thread that is inside a write operation; and a reader in
\* front of its lock is granted it whenever no writer is inside, whatever
\* the number of readers inside.
C31_WriterExcludesAll ==
  /\ [](/\ Cardinality(WritersInside) <= 1
        /\ WritersInside # {} => ReadersInside = {}
        /\ \A t \in AllClients :
             (cpc[t] = "lock" /\ ~IsWriteOp(cop[t].op) /\ WritersInside = {})
               => CanLockShared)
  /\ [][prices' # prices =>
          \E t \in WritersInside : cpc[t] = "store" /\ cpc'[t] = "unlock"]_vars

\* two readers are inside read operations at the same time
C31_Witness ==
  /\ Cardinality(ReadersInside) = 2
  /\ \E t, u \in ReadersInside : cop[t].op = "size" /\ cop[u].op = "get"
  /\ prices # EmptyMap

(***************************************************************************)
(* Properties of the ThreadManager                                         *)
(***************************************************************************)
Ledger == DOMAIN priceHistory

RecordsOf(id) == Cardinality({i \in Ledger : priceHistory[i].task = id})

\* the unit is between the call of executePricingTask and the push of the record
InExecution(u) == upc[u] \in {"get", "calc", "set", "log", "catch", "record"}

\* C1 (as stated): for every product p, once a successful task on p has
\* completed, the PriceTable value of p is the adjusted price of the latest
\* successful task on p to complete.
C1_CompletedTaskPriceStays ==
  \A p \in Products : lastDone[p] # None => getPrice(prices, p) = lastDone[p]

\* C1 (amended): the PriceTable value of p follows the order of the setPrice
\* calls, not the order of completion: a product has an entry exactly when
\* some task has executed setPrice on it, and a successful task whose
\* setPrice is the latest on p finds its adjusted price in the table, during
\* the rest of its execution and after its record is appended.
C1_LastSetPriceWins ==
  /\ \A p \in Products : (p \in DOMAIN prices) <=> (lastSet[p] # None)
  /\ \A u \in Units :
       (utask[u].success /\ lastSet[utask[u].productId] = utask[u].id)
         => getPrice(prices, utask[u].productId) = utask[u].adjustedPrice
  /\ \A i \in Ledger :
       (priceHistory[i].status = "SUCCESS"
          /\ lastSet[priceHistory[i].productId] = priceHistory[i].task)
         => getPrice(prices, priceHistory[i].productId) = priceHistory[i].adjustedPrice

\* two successful tasks priced the same product differently, and the one
\* recorded first made the later setPrice: the table holds its price
C1_Witness ==
  \E i, j \in Ledger :
    /\ i < j
    /\ priceHistory[i].productId = priceHistory[j].productId
    /\ priceHistory[i].status = "SUCCESS"
    /\ priceHistory[j].status = "SUCCESS"
    /\ priceHistory[i].adjustedPrice # priceHistory[j].adjustedPrice
    /\ lastSet[priceHistory[i].productId] = priceHistory[i].task
    /\ getPrice(prices, priceHistory[i].productId) = priceHistory[i].adjustedPrice

\* C6: the ledger is append-only (a step leaves it as it is or adds one
\* record at its end) and complete (a task that was started and is no longer
\* in execution has exactly one record, any other task has none).
C6_AppendOnlyOneRecordPerTask ==
  /\ [](\A id \in 1 .. ntasks :
          RecordsOf(id) =
            IF id \in started /\ ~(\E u \in Units : InExecution(u) /\ utask[u].id = id)
              THEN 1 ELSE 0)
  /\ [][\/ priceHistory' = priceHistory
        \/ /\ Len(priceHistory') = Len(priceHistory) + 1
           /\ SubSeq(priceHistory', 1, Len(priceHistory)) = priceHistory]_vars

\* every submitted task has been executed, some failed and some succeeded
C6_Witness ==
  /\ waited
  /\ Len(priceHistory) = submitted
  /\ \E i, j \in Ledger :
       priceHistory[i].status = "FAILED" /\ priceHistory[j].status = "SUCCESS"

\* C7: when waitAll has returned after a run of K submitted tasks (fixed
\* mode without a stop request, or pool mode with every addTask before
\* stopAll), the ledger holds K records and successTasks + failedTasks =
\* totalTasks = K.
C7_LedgerHoldsEverySubmittedTask ==
  (/\ waited
   /\ \/ mode = "fixed" /\ ~stopEver
      \/ mode = "pool" /\ stopEver /\ ~addAfterStop)
    => /\ Len(priceHistory) = submitted
       /\ successTasks + failedTasks = totalTasks
       /\ totalTasks = submitted

\* C8: a failed task has not written the PriceTable, its adjusted price is
\* its base price, it has one record, of status FAILED, and once it is
\* counted the failed counter is the number of FAILED records.
C8_FailedTaskLeavesTable ==
  /\ \A i \in Ledger :
       priceHistory[i].status = "FAILED"
         => /\ priceHistory[i].task \notin setters
            /\ priceHistory[i].adjustedPrice = priceHistory[i].originalPrice
            /\ RecordsOf(priceHistory[i].task) = 1
  /\ (\A u \in Units : upc[u] \in {"none", "start", "loop", "done"})
       => failedTasks = Cardinality({i \in Ledger : priceHistory[i].status = "FAILED"})

\* C9: after stopAll and waitAll in pool mode, every task that was in the
\* queue or taken from it when stopAll was called has a record and none is
\* left in the queue.
C9_QueuedTasksDrained ==
  (mode = "pool" /\ stopEver /\ waited)
    => \A id \in preStopTasks : id \notin QueuedIds /\ RecordsOf(id) = 1

(***************************************************************************)
(* Properties of the logger                                                *)
(***************************************************************************)
Written == Range(fileLines)

\* (C10, as stated) every message whose log() returned before stop() was
\* called is in the destination when the writer thread has exited
C10_DrainedToFile == wpc = "exit" => preStop \subseteq Written

\* C10 (amended): when the writer thread has exited, every message whose
\* log() returned before stop() was called has been taken from the queue,
\* and it is in the destination if the destination file was opened
C10_Drained ==
  wpc = "exit" =>
    /\ preStop \cap Range(logQueue) = {}
    /\ wmsg = None
    /\ fileOpen => preStop \subseteq Written

\* C10 witness: the writer has exited with the file open after stop() found
\* two returned messages still in the queue
C10_Witness ==
  /\ wpc = "exit"
  /\ opc = "stopped"
  /\ fileOpen
  /\ Cardinality(preStop) >= 2
  /\ Len(fileLines) = MaxMsgs

\* the message the writer has popped and not yet written
InHand == IF wmsg # None THEN <<wmsg>> ELSE <<>>

\* C11: log() numbers the messages in the order of their pushes; the lines
\* of the file are the messages 1, 2, ... in that order, none twice and none
\* left out, and with the file open the lines, the message the writer has in
\* hand and the queue make up exactly the messages pushed, in push order.
C11_WrittenInEnqueueOrder ==
  /\ \A i \in DOMAIN fileLines : fileLines[i] = i
  /\ fileOpen => fileLines \o InHand \o logQueue = [i \in 1 .. nmsg |-> i]

\* one message written, the next in the writer's hand, a third queued while
\* its producer is still inside log()
C11_Witness ==
  /\ fileLines = <<1>>
  /\ wmsg = 2
  /\ logQueue = <<3>>
  /\ \E p \in Producers : ppc[p] = "notify"

\* C12: once stop() has returned, the writer thread eventually exits (and
\* the join of the destructor returns).
C12_ConsumerExitsAfterStop == (opc = "stopped") ~> (wpc = "exit")

\* C13: once the destructor has passed the join the writer thread has
\* exited, so the file is closed only after that: in the state "closed" the
\* writer has exited with no message in hand, hence never reaches its write
\* step with the file closed by the destructor.
C13_ClosedAfterWriterExit ==
  /\ opc \in {"joined", "closed"} => (wpc = "exit" /\ wmsg = None)
  /\ opc = "closed" => ~fileOpen

\* the destructor has closed a file into which messages were written, one
\* of them pushed after stop() was called
C13_Witness ==
  /\ opc = "closed"
  /\ Len(fileLines) >= 2
  /\ \E i \in DOMAIN fileLines : fileLines[i] \notin preStop

AllUnitsDone == \A u \in Units : upc[u] \in {"none", "done"}

\* C14: in pool mode, once stopAll has returned every worker eventually
\* terminates, so that a following waitAll returns.
C14_WorkersTerminateAfterStopAll ==
  (mode = "pool" /\ stopEver /\ mpc = "ready") ~> AllUnitsDone

\* C16: a destructor that has started (it has requested the stop) eventually
\* completes: every unit is joined and the members are released.
C16_DestructorCompletes == (mpc = "dtornotify") ~> (mpc = "destroyed")

\* C15: when waitAll has returned every thread that was spawned has
\* terminated and the registry is empty; the step on which a first waitAll
\* returns finds every thread of the registry ended, and a second waitAll has
\* nothing to join: it returns at once and changes neither registry nor
\* threads.
C15_WaitAllJoinsAndClears ==
  /\ [](waited => (merchantThreads = {} /\ AllUnitsDone))
  /\ [][(waited' /\ ~waited) => (\A u \in merchantThreads : upc[u] = "done")]_vars
  /\ [][(rewaited' /\ ~rewaited) =>
         (waited /\ merchantThreads = {} /\ UNCHANGED <<merchantThreads, upc>>)]_vars

\* waitAll has returned twice after a run in which tasks were executed
C15_Witness == rewaited /\ Len(priceHistory) >= 2

\* C18: a merchant thread starts a task only on a step on which it reads the
\* stop flag as not set; a thread that is executing a task does not end
\* before the task is recorded and counted; a thread that has ended has
\* executed and recorded, once each, the products before its index and has
\* not started the others, and it has left products out only after a stop
\* request; when all have ended every started task is recorded and counted.
C18_CooperativeCancellation ==
  /\ [][\A u \in MerchantIds :
          /\ (upc[u] = "loop" /\ upc'[u] = "get") => ~stopFlag
          /\ (upc[u] \notin {"loop", "done"}) => upc'[u] # "done"]_vars
  /\ [](\A u \in MerchantIds :
          upc[u] = "done" =>
            /\ \A n \in 1 .. Len(ProductsOf(u)) :
                 IF n < uidx[u]
                   THEN RecordsOf(MerchantTaskId(u, n)) = 1
                   ELSE /\ MerchantTaskId(u, n) \notin started
                        /\ RecordsOf(MerchantTaskId(u, n)) = 0
            /\ uidx[u] <= Len(ProductsOf(u)) => stopEver)
  /\ []((mode = "fixed" /\ AllUnitsDone) =>
          /\ Len(priceHistory) = Cardinality(started)
          /\ totalTasks = Cardinality(started)
          /\ successTasks + failedTasks = totalTasks)

\* merchant A has executed its first product, found the flag set before
\* its second and ended; the first task is recorded and counted
C18_Witness ==
  /\ upc["A"] = "done"
  /\ uidx["A"] = 2
  /\ RecordsOf(MerchantTaskId("A", 1)) = 1
  /\ AllUnitsDone
  /\ totalTasks >= 1

\* the positions of the owner inside exportPriceTrend and printStatistics
ObserverPcs == {"exportlock", "exportrows", "printsize", "printprices"}

\* C19: a step of exportPriceTrend or printStatistics (with its size() and
\* getAllPrices() calls) leaves PriceTable, ledger, counters, task queue and
\* stop flag as they are; the owner holds historyMutex only while it writes
\* rows, of which there are no more than records; and a unit that has a
\* task to record appends the record in the end, whatever the owner calls.
C19_ReadOnlyOperations ==
  /\ [][((mpc \in ObserverPcs \/ mpc' \in ObserverPcs \/ nobs' # nobs)
           /\ (mpc' # mpc \/ exportFile' # exportFile \/ nobs' # nobs))
          => UNCHANGED <<prices, priceHistory, counterVars, taskQueue, stopFlag>>]_vars
  /\ [](historyMutex # "free" =>
          (historyMutex = Owner /\ mpc = "exportrows"
             /\ Len(exportFile) <= Len(priceHistory)))
  /\ \A u \in MerchantIds : (upc[u] = "record") ~> (upc[u] = "total")

\* the export wrote its rows while a unit was waiting to append a record
C19_Witness ==
  /\ mpc = "exportrows"
  /\ Len(exportFile) >= 1
  /\ Len(exportFile) = Len(priceHistory)
  /\ \E u \in Units : upc[u] = "record"

\* the places where the task is: in the queue, in execution, in the ledger
Copies(id) ==
  Cardinality({i \in DOMAIN taskQueue : taskQueue[i].id = id})
    + Cardinality({u \in Units : InExecution(u) /\ utask[u].id = id})
    + RecordsOf(id)

\* C20: a task is in one place at most: in the queue once, or in execution
\* by one unit, or in the ledger with one record; a task that was started
\* is never in the queue again, and the queue changes only by a pop at its
\* front or a push of a new task at its tail.
C20_ExecutedAtMostOnce ==
  /\ [](\A id \in 1 .. ntasks : Copies(id) <= 1)
  /\ [][/\ \A id \in started : id \notin {taskQueue'[i].id : i \in DOMAIN taskQueue'}
        /\ started \subseteq started'
        /\ \/ taskQueue' = taskQueue
           \/ taskQueue # <<>> /\ taskQueue' = Tail(taskQueue)
           \/ /\ Len(taskQueue') = Len(taskQueue) + 1
              /\ SubSeq(taskQueue', 1, Len(taskQueue)) = taskQueue
              /\ taskQueue'[Len(taskQueue')].id \notin 1 .. ntasks]_vars

\* two workers execute the two tasks at the same time, and one of the
\* tasks has failed
C20_Witness ==
  \E u, v \in WorkerIds :
    /\ u # v
    /\ InExecution(u)
    /\ InExecution(v)
    /\ utask[u].id # utask[v].id
    /\ upc[u] = "record"
    /\ ~utask[u].success

\* a unit that has a failed task in hand: in the catch block, or returning
\* from executePricingTask with success = false
FailedInHand(u) ==
  \/ upc[u] = "catch"
  \/ upc[u] \in {"record", "total", "count"} /\ ~utask[u].success

\* the position that follows each position of a task after its execution
AfterFailure(pc) ==
  CASE pc = "catch" -> "record"
    [] pc = "record" -> "total"
    [] pc = "total" -> "count"
    [] pc = "count" -> "loop"

\* C21: a failure stays in its task. Every step of a unit that has a failed
\* task in hand leads to the next position of the loop body (record, count,
\* back to the head of the loop, a merchant thread at its next product) and
\* never to the end of the thread; it leaves the stop flag, the registry of
\* threads and the position, task and index of every other unit as they
\* were. The stop flag is written by steps of the owner only. A merchant
\* thread that has ended with no stop requested has a record for each of
\* its products, whatever failed on the way.
C21_FailureContained ==
  /\ [][\A u \in Units :
          (FailedInHand(u) /\ upc'[u] # upc[u]) =>
            /\ upc'[u] = AfterFailure(upc[u])
            /\ upc'[u] = "loop" =>
                 uidx'[u] = IF u \in MerchantIds THEN uidx[u] + 1 ELSE uidx[u]
            /\ stopFlag' = stopFlag
            /\ merchantThreads' = merchantThreads
            /\ \A v \in Units \ {u} :
                 upc'[v] = upc[v] /\ utask'[v] = utask[v] /\ uidx'[v] = uidx[v]]_vars
  /\ [][stopFlag' # stopFlag => mpc' # mpc]_vars
  /\ [](\A u \in MerchantIds :
          (upc[u] = "done" /\ ~stopEver) =>
            \A n \in 1 .. Len(ProductsOf(u)) : RecordsOf(MerchantTaskId(u, n)) = 1)

\* merchant A failed on its first product and has recorded its second one
\* after it, merchant B has succeeded after the failure, and no stop was
\* requested
C21_Witness ==
  /\ ~stopFlag
  /\ \E i, j, k \in Ledger :
       /\ i < j
       /\ i < k
       /\ priceHistory[i].task = MerchantTaskId("A", 1)
       /\ priceHistory[i].status = "FAILED"
       /\ priceHistory[j].task = MerchantTaskId("A", 2)
       /\ priceHistory[k].merchantName = "B"
       /\ priceHistory[k].status = "SUCCESS"

\* the number of ledger records with the given status
RecordsWith(status) ==
  Cardinality({i \in Ledger : priceHistory[i].status = status})

\* the units that have recorded a task and have not yet counted it
NotYetTotal == {u \in Units : upc[u] = "total"}

NotYetCounted(success) ==
  {u \in Units : upc[u] \in {"total", "count"} /\ utask[u].success = success}

\* C22: no counter ever decreases; a step changes one counter at most, by
\* one: totalTasks on the step from "total", successTasks or failedTasks,
\* according to the success flag of the task, on the step from "count";
\* and no increment is lost: in every state totalTasks is the number of
\* recorded tasks less the units between the record and totalTasks++, and
\* successTasks and failedTasks are the SUCCESS and FAILED records less the
\* units that have not passed their second increment.
C22_CountersExact ==
  /\ [][/\ totalTasks' \in {totalTasks, totalTasks + 1}
        /\ successTasks' \in {successTasks, successTasks + 1}
        /\ failedTasks' \in {failedTasks, failedTasks + 1}
        /\ (totalTasks' - totalTasks) + (successTasks' - successTasks)
             + (failedTasks' - failedTasks) <= 1
        /\ totalTasks' # totalTasks =>
             \E u \in Units : upc[u] = "total" /\ upc'[u] = "count"
        /\ successTasks' # successTasks =>
             \E u \in Units : upc[u] = "count" /\ upc'[u] = "loop" /\ utask[u].success
        /\ failedTasks' # failedTasks =>
             \E u \in Units : upc[u] = "count" /\ upc'[u] = "loop" /\ ~utask[u].success
        /\ \A u \in Units :
             /\ (upc[u] = "total" /\ upc'[u] # "total") => totalTasks' = totalTasks + 1
             /\ (upc[u] = "count" /\ upc'[u] # "count") =>
                  IF utask[u].success THEN successTasks' = successTasks + 1
                                      ELSE failedTasks' = failedTasks + 1]_vars
  /\ [](/\ totalTasks = Len(priceHistory) - Cardinality(NotYetTotal)
        /\ successTasks = RecordsWith("SUCCESS") - Cardinality(NotYetCounted(TRUE))
        /\ failedTasks = RecordsWith("FAILED") - Cardinality(NotYetCounted(FALSE)))

\* two units are incrementing at the same time, one before totalTasks++ and
\* one after it, for a failed and a successful task, and a task was counted
\* before
C22_Witness ==
  /\ totalTasks >= 2
  /\ successTasks + failedTasks >= 1
  /\ \E u, v \in Units :
       /\ upc[u] = "total"
       /\ upc[v] = "count"
       /\ utask[u].success # utask[v].success

\* the first n records of the ledger
LedgerPrefix(n) == SubSeq(priceHistory, 1, n)

\* C24: the rows of exportPriceTrend are written under one hold of the
\* history lock: the lock is taken by the owner on the step before the row
\* loop only and is kept until the loop has ended; no unit appends while the
\* rows are written; the rows written so far are the first records of the
\* ledger in append order; when the call returns the rows are exactly the
\* ledger of that moment, and they remain a prefix of the ledger whatever
\* is appended afterwards.
C24_ExportIsLedgerAtOneInstant ==
  /\ [][/\ (historyMutex # Owner /\ historyMutex' = Owner) => mpc = "exportlock"
        /\ mpc = "exportrows" =>
             /\ priceHistory' = priceHistory
             /\ mpc' = "exportrows" => historyMutex' = Owner
             /\ mpc' # "exportrows" =>
                  /\ mpc' = "ready"
                  /\ historyMutex' = "free"
                  /\ exportFile' = priceHistory
             /\ exportFile' # exportFile =>
                  exportFile' = Append(exportFile, priceHistory[Len(exportFile) + 1])]_vars
  /\ [](mpc = "exportrows" => historyMutex = Owner)
  /\ [](/\ Len(exportFile) <= Len(priceHistory)
        /\ exportFile = LedgerPrefix(Len(exportFile)))

\* the call has returned with the records of both merchants in its rows, and
\* a unit has appended a record since
C24_Witness ==
  /\ mpc = "ready"
  /\ nobs = 1
  /\ Len(exportFile) >= 2
  /\ Len(priceHistory) > Len(exportFile)
  /\ \E i, j \in DOMAIN exportFile :
       exportFile[i].merchantName = "A" /\ exportFile[j].merchantName = "B"

\* C25: a pool worker ends only on a step it takes after its wait, with the
\* queue lock in its hands, on which the stop flag is set and the task
\* queue is empty; it ends neither with a task in the queue nor without a
\* stop request.
C25_WorkerEndsIdleStoppedAndEmpty ==
  [][\A u \in WorkerIds :
       (upc[u] # "done" /\ upc'[u] = "done") =>
         /\ upc[u] = "qtake"
         /\ queueMutex = u
         /\ stopFlag
         /\ taskQueue = <<>>]_vars

\* the positions of a worker inside its queue block, the mutex in its hands
InQueueBlock == {"qpred", "qwait", "qtake"}

\* the positions of a unit from executePricingTask to the counters
BusyWithTask == {"get", "calc", "set", "log", "catch", "record", "total", "count"}

\* C26: the task queue loses tasks only one at a time, from its front, on a
\* step of a worker that holds the queue lock, and the task goes to that
\* worker; the lock is released on that same step: the queue lock is only
\* ever held by a worker inside its queue block and never by a unit that
\* executes, records or counts a task.
C26_QueueLockNotHeldInExecution ==
  /\ [][\A u \in WorkerIds :
          (upc[u] = "qtake" /\ upc'[u] = "get") =>
            /\ queueMutex = u
            /\ queueMutex' = "free"
            /\ taskQueue # <<>>
            /\ utask'[u] = Head(taskQueue)
            /\ taskQueue' = Tail(taskQueue)]_vars
  /\ [][Len(taskQueue') < Len(taskQueue) =>
          \E u \in WorkerIds : upc[u] = "qtake" /\ upc'[u] = "get"]_vars
  /\ [](\A u \in Units : upc[u] \in BusyWithTask => queueMutex # u)
  /\ [](queueMutex # "free" =>
          queueMutex \in WorkerIds /\ upc[queueMutex] \in InQueueBlock)

\* a worker executes a task while the other worker is in its queue block
\* with the lock, in front of a second task
C26_Witness ==
  \E u, v \in WorkerIds :
    /\ upc[u] = "calc"
    /\ upc[v] = "qtake"
    /\ queueMutex = v
    /\ taskQueue # <<>>

\* the ids of the tasks added so far, in the order of the addTask calls
AddedIds == 1 .. ntasks

\* C27: addTask puts the task behind the tasks already in the queue and its
\* notify_one takes one worker out of the wait when one is waiting; the
\* tasks leave the queue in the order they were added: the queue holds the
\* most recently added tasks in that order and the tasks taken are the
\* earlier ones; and with workers started and no stop request every task
\* that is in the queue is eventually taken, executed and recorded.
C27_AddedTasksExecutedInOrder ==
  /\ [][(mpc = "ready" /\ mpc' = "notify") =>
          /\ Len(taskQueue') = Len(taskQueue) + 1
          /\ SubSeq(taskQueue', 1, Len(taskQueue)) = taskQueue
          /\ taskQueue'[Len(taskQueue')].id = ntasks']_vars
  /\ [][(mpc = "notify" /\ mpc' = "ready") =>
          IF queueWaiters = {}
            THEN queueWaiters' = {}
            ELSE \E w \in queueWaiters : queueWaiters' = queueWaiters \ {w}]_vars
  /\ [][\A u \in WorkerIds :
          (upc[u] = "qtake" /\ upc'[u] = "get") =>
            /\ utask'[u].id = Head(taskQueue).id
            /\ \A id \in AddedIds : id < utask'[u].id => id \in started]_vars
  /\ [](/\ \A i \in DOMAIN taskQueue :
             taskQueue[i].id = ntasks - Len(taskQueue) + i
        /\ started = 1 .. (ntasks - Len(taskQueue)))
  /\ \A id \in 1 .. MaxTasks : (id \in QueuedIds) ~> (RecordsOf(id) = 1)

\* the two tasks are recorded in the order they were added and both workers
\* are back in the wait
C27_Witness ==
  /\ ntasks = 2
  /\ Len(priceHistory) = 2
  /\ priceHistory[1].task = 1
  /\ priceHistory[2].task = 2
  /\ \A u \in WorkerIds : upc[u] = "qblocked" /\ u \in queueWaiters

\* C28: on the step on which the writer thread reads whether the queue is
\* empty to decide if it returns, the queue mutex is in its hands.
C28_ExitTestUnderQueueLock ==
  [][(wpc = "loopq" /\ wpc' # "loopq") => logMutex = Writer]_vars

\* C29: the writer thread does not hold the queue mutex while it writes a
\* message to the file: the mutex is free at the write and on the step that
\* appends the line, and the writer holds it only at the wait predicate and
\* at the pop, so log() waits for these critical sections at most.
C29_NoLockDuringFileWrite ==
  /\ [](wpc = "write" => logMutex = "free")
  /\ [][fileLines' # fileLines => (logMutex = "free" /\ logMutex' = "free")]_vars
  /\ [](logMutex = Writer => wpc \in {"pred", "wait", "inner"})
  /\ [](logMutex \in {"free", Writer})

\* the writer is writing the first message with the mutex free, while the
\* second message is in the queue and its producer is at its notify_one
C29_Witness ==
  /\ wpc = "write"
  /\ wmsg = 1
  /\ fileOpen
  /\ logMutex = "free"
  /\ logQueue = <<2>>
  /\ \E p \in Producers : ppc[p] = "notify" /\ pmsg[p] = 2

\* the parts of C32 that concern the seeding step and the writes of a task
SeedingWritesNothing ==
  [][\A u \in Units :
       (upc[u] = "get" /\ upc'[u] = "calc") =>
         /\ prices' = prices
         /\ priceHistory' = priceHistory
         /\ utask'[u].basePrice # 0
         /\ utask'[u].basePrice =
              IF getPrice(prices, utask[u].productId) = 0
                THEN CHOOSE seed \in SeedPrices : TRUE
                ELSE getPrice(prices, utask[u].productId)]_vars

OneWriteOneRecord ==
  /\ [][prices' # prices =>
          \E u \in Units :
            /\ upc[u] = "set"
            /\ upc'[u] = "log"
            /\ utask[u].id \notin setters
            /\ prices' = Put(prices, utask[u].productId, utask[u].adjustedPrice)]_vars
  /\ [](\A id \in started : RecordsOf(id) <= 1)

FailedTaskWroteNothing ==
  \A i \in Ledger : priceHistory[i].status = "FAILED" => priceHistory[i].task \notin setters

\* C32: when getPrice returns 0 the task takes a fresh non-zero baseline as
\* its base price, and that step writes nothing to the price table and
\* appends no record; a task writes the table once at most, with its
\* pricing result, and has one record at most; a task that failed has
\* written nothing to the table.
C32_SeedingWritesNothing ==
  /\ SeedingWritesNothing
  /\ OneWriteOneRecord
  /\ []FailedTaskWroteNothing

\* the records of merchant u, in ledger order
RecordsBy(u) == SelectSeq(priceHistory, LAMBDA r : r.merchantName = u)

\* every (merchant, product) entry has its record
AllEntriesRecorded ==
  /\ Len(priceHistory) = SumLen(MerchantList, Len(MerchantList))
  /\ \A u \in MerchantIds :
       \A n \in 1 .. Len(ProductsOf(u)) : RecordsOf(MerchantTaskId(u, n)) = 1

\* C33: startPricing registers and starts one thread per merchant and no
\* other; a thread takes the products of its own list in list order, one
\* after another, so that its records are the first products of its list
\* in order; and, no stop being requested, every thread ends after its
\* last product and waitAll returns, with one record for every (merchant,
\* product) entry.
C33_FixedModeRunsToCompletion ==
  /\ [][mode' # mode =>
          /\ merchantThreads' = MerchantIds
          /\ \A u \in Units :
               upc'[u] = IF u \in MerchantIds THEN "start" ELSE "none"]_vars
  /\ [][\A u \in MerchantIds :
          /\ (upc[u] = "loop" /\ upc'[u] = "get") =>
               /\ utask'[u].merchantName = u
               /\ utask'[u].productId = ProductsOf(u)[uidx[u]]
          /\ uidx'[u] # uidx[u] =>
               \/ upc[u] = "none" /\ uidx'[u] = 1
               \/ upc[u] = "count" /\ uidx'[u] = uidx[u] + 1
          /\ upc'[u] = "done" => (upc[u] = "done" \/ uidx[u] = Len(ProductsOf(u)) + 1)]_vars
  /\ [](\A u \in MerchantIds :
          /\ Len(RecordsBy(u)) <= Len(ProductsOf(u))
          /\ \A i \in DOMAIN RecordsBy(u) : RecordsBy(u)[i].productId = ProductsOf(u)[i])
  /\ (mode = "fixed") ~> (waited /\ merchantThreads = {} /\ AllUnitsDone /\ AllEntriesRecorded)

\* waitAll has returned; the record of merchant B lies between the two
\* records of merchant A
C33_Witness ==
  /\ waited
  /\ ~stopFlag
  /\ AllEntriesRecorded
  /\ priceHistory[1].merchantName = "A"
  /\ priceHistory[2].merchantName = "B"
  /\ priceHistory[3].productId = "P2"

\* C34: the exportPriceTrend call that cannot open its file is over in the
\* step that finds the file not open: the history lock is free before and
\* after it, nothing is written to the rows, and the ledger, the price
\* table, the counters, the stop flag and the position, task and index of
\* every unit are as before; the owner never holds the history lock after
\* it, so no unit waits for it.
C34_OpenFailureLeavesAllUntouched ==
  /\ [][(~openFailed /\ openFailed') =>
          /\ mpc = "ready" /\ mpc' = "ready"
          /\ historyMutex = "free" /\ historyMutex' = "free"
          /\ exportFile' = exportFile
          /\ priceHistory' = priceHistory
          /\ prices' = prices
          /\ counterVars' = counterVars
          /\ stopFlag' = stopFlag
          /\ unitVars' = unitVars
          /\ merchantThreads' = merchantThreads]_vars
  /\ [](openFailed => historyMutex # Owner)

\* the call has failed to open its file; the units have gone on and have
\* recorded all their tasks after it
C34_Witness ==
  /\ openFailed
  /\ mpc = "ready"
  /\ AllEntriesRecorded
  /\ AllUnitsDone
  /\ totalTasks = Len(priceHistory)

\* the log file could not be opened by the constructor
NeverOpened == ~fileOpen /\ opc # "closed"

\* the parts of C35 on the messages: nothing is written, and a message
\* pushed before stop() is taken out of the queue
MessagesDiscarded ==
  /\ [](NeverOpened => fileLines = <<>>)
  /\ \A m \in 1 .. MaxMsgs :
       (NeverOpened /\ opc = "run" /\ m \in Range(logQueue)) ~> (m \notin Range(logQueue))

\* C35: with a log file that could not be opened the writer thread runs all
\* the same: log() pushes its message, the writer takes every message out
\* of the queue and writes nothing, and after stop() the writer thread
\* exits, so that the join returns.
C35_LoggerWorksWithoutFile ==
  /\ MessagesDiscarded
  /\ (NeverOpened /\ opc = "stopped") ~> (wpc = "exit")

\* C36: in every state the ledger is at least as long as totalTasks and
\* totalTasks is at least successTasks + failedTasks; the ledger is ahead
\* of totalTasks by no more than the units between their record and their
\* totalTasks++, and totalTasks is ahead of the two other counters by no
\* more than the units between their two increments; a unit passes the
\* three steps in this order.
C36_LedgerAheadOfCounters ==
  /\ [](/\ Len(priceHistory) >= totalTasks
        /\ totalTasks >= successTasks + failedTasks
        /\ Len(priceHistory) - totalTasks <= Cardinality({u \in Units : upc[u] = "total"})
        /\ totalTasks - (successTasks + failedTasks)
             <= Cardinality({u \in Units : upc[u] = "count"}))
  /\ [][\A u \in Units :
          /\ (upc[u] = "record" /\ upc'[u] # "record") =>
               (upc'[u] = "total" /\ Len(priceHistory') = Len(priceHistory) + 1)
          /\ (upc[u] = "total" /\ upc'[u] # "total") => upc'[u] = "count"
          /\ (upc'[u] = "total" /\ upc[u] # "total") => upc[u] = "record"
          /\ (upc'[u] = "count" /\ upc[u] # "count") => upc[u] = "total"]_vars

\* the ledger is ahead of totalTasks and totalTasks is ahead of the other
\* two counters, with units running
C36_Witness ==
  /\ Len(priceHistory) > totalTasks
  /\ totalTasks > successTasks + failedTasks
  /\ successTasks + failedTasks >= 1

\* after waitAll, no unit running
Quiescent == waited /\ AllUnitsDone

\* the SUCCESS records of product p, by their position in the ledger
SuccessRecords(p) ==
  {i \in Ledger : priceHistory[i].productId = p /\ priceHistory[i].status = "SUCCESS"}

MaxOf(S) == CHOOSE x \in S : \A y \in S : y <= x

C38_PriceChainContinuity ==
  [][\A u \in Units :
       (upc[u] = "set" /\ upc'[u] = "log" /\ utask[u].productId \in DOMAIN prices) =>
         prices[utask[u].productId] = utask[u].basePrice]_vars

\* C39: once stopAll has set the stop flag, no step clears it while a unit
\* spawned before the call is still running; hence a merchant thread that
\* has ended with products left has ended because of the stop, and no
\* thread starts a task after the stop request.
C39_StopNotRevoked ==
  /\ [][(stopFlag /\ ~stopFlag') => AllUnitsDone]_vars
  /\ [][\A u \in MerchantIds :
          (stopEver /\ upc[u] = "loop") => upc'[u] \in {"loop", "done"}]_vars

(***************************************************************************)
(* Properties of the manager with its logger                               *)
(***************************************************************************)
\* the messages handed to logger->log by the execution units
UnitMessages == {m \in unitLog : m.who \in Units}

\* every log call of the units has pushed its message and returned, and the
\* units hand over no further message
UnitsEnqueuedBeforeStop ==
  /\ [](logStopFlag =>
          /\ UnitMessages \subseteq logged
          /\ \A u \in Units : logCall[u] = <<>>)
  /\ [][logStopFlag => unitLog' = unitLog]_vars

\* (C40, as stated) every message of an execution unit is enqueued before
\* the logger is asked to stop, and is in the destination when the writer
\* thread has exited
C40_UnitMessagesWritten ==
  /\ logStopFlag => UnitMessages \subseteq logged
  /\ wpc = "exit" => UnitMessages \subseteq Written

\* C40 (amended): every message of an execution unit is enqueued, and its
\* log call has returned, before the logger is asked to stop, and no unit
\* logs afterwards; when the writer thread has exited every unit message has
\* been taken from the queue, it is in the destination if the destination
\* file was opened, and the destination does not change any more
C40_UnitMessagesDrained ==
  /\ UnitsEnqueuedBeforeStop
  /\ [](wpc = "exit" =>
          /\ logQueue = <<>>
          /\ UnitMessages \subseteq logged
          /\ fileOpen => UnitMessages \subseteq Written)
  /\ [][wpc = "exit" => fileLines' = fileLines]_vars

\* C40 witness: the manager was destroyed after its worker had executed a
\* task; the writer has exited with the file open and the worker's start
\* line, price line and stop line are in the file
C40_Witness ==
  /\ wpc = "exit"
  /\ opc = "stopped"
  /\ fileOpen
  /\ \E m \in UnitMessages : m.what = "price"
  /\ \E m \in UnitMessages : m.what = "Started"
  /\ \E m \in UnitMessages : m.what = "Stopped"
  /\ UnitMessages \subseteq Written

(***************************************************************************)
(* Properties of the lock scopes                                           *)
(***************************************************************************)
\* C17: no thread holds two core locks at the same time, and a thread that
\* is in front of a lock it cannot take finds the lock in the hands of a
\* thread that is not itself waiting for a lock: no cycle of waiting threads.
C17_OneLockAtATime ==
  /\ \A t \in LockThreads : Cardinality(held[t]) <= 1
  /\ \A t \in LockThreads :
       Blocked(t) =>
         \E h \in LockThreads \ {t} :
           Head(lscript[t])[2] \in held[h] /\ ~Blocked(h)

\* three threads hold three different locks and the fourth waits for one
C17_Witness ==
  /\ Cardinality({t \in LockThreads : held[t] # {}}) = 3
  /\ Cardinality(UNION {held[t] : t \in LockThreads}) = 3
  /\ \E t \in LockThreads : Blocked(t)

\* C30: a thread that is inside strategy.calculatePrice holds none of the
\* core locks (rwMutex of the price table, historyMutex, queueMutex of the
\* tasks, the mutex of the logger).
C30_NoLockInPricingCall ==
  \A t \in LockThreads :
    Inside(t, "calculatePrice") => held[t] \cap CoreLocks = {}

\* the merchant thread is inside calculatePrice while the worker is inside
\* setPrice with the table locked, the owner exports under historyMutex and
\* the writer holds the mutex of the logger
C30_Witness ==
  /\ Inside("A", "calculatePrice")
  /\ held["A"] = {}
  /\ Inside(WorkerName(0), "setPrice")
  /\ held[WorkerName(0)] = {"rwMutex"}
  /\ held[Owner] = {"historyMutex"}
  /\ held[Writer] = {"logMutex"}

====
